---------------------------- MODULE Spec2Model ----------------------------
(***************************************************************************)
(* Model of the genetic-marker analysis server: the upload pipeline of     *)
(* server/routes.ts (POST /api/upload-genetic-data), the marker analysis   *)
(* of server/genetic-ai.ts over server/local-llm.ts, the progress registry *)
(* of server/progress-sse.ts and the tables behind server/storage.ts.      *)
(*                                                                         *)
(* JavaScript runs one handler at a time: an action of this model is the   *)
(* code between two awaits, executed atomically when the awaited call of   *)
(* the previous action settles.                                            *)
(***************************************************************************)
EXTENDS Integers, Sequences, FiniteSets, Bags, TLC

(***************************************************************************)
(* Sizes.  batchSize is 5 and maxMarkers is 50 in routes.ts; the model     *)
(* keeps the names and the structure (several batches, a file longer than  *)
(* the limit) and scales the two values down so that every interleaving of *)
(* a batch can be enumerated.  No formula below depends on the values.     *)
(***************************************************************************)
batchSize == 2
maxMarkers == 3
\* a file holds up to maxMarkers + ExtraMarkers valid rows
ExtraMarkers == 1
\* Date.now() takes the values 0..MaxClock
MaxClock == 1
\* generateRiskAssessments returns up to MaxAssessments assessments
MaxAssessments == 2
\* rows of a file given to parseGeneticFile alone
MaxRows == 2
\* comma-separated fields of such a row
MaxFields == 4

Runs == {1, 2}
Conns == {"c1", "c2"}
Ids == 0 .. MaxClock
None == "none"

Min(a, b) == IF a < b THEN a ELSE b

(***************************************************************************)
(* Text.  A string is a sequence of characters; "," "\n" " " "\r" are the  *)
(* characters split() and trim() look at, every other element (a word such *)
(* as "gene") stands for a run of characters without comma or white space. *)
(***************************************************************************)
WhiteSpace == {" ", "\r", "\t"}

RECURSIVE SplitOn(_, _)
\* String.prototype.split(sep): "" gives one empty field
SplitOn(s, sep) ==
  IF \A k \in 1 .. Len(s) : s[k] # sep
    THEN << s >>
    ELSE LET p == CHOOSE k \in 1 .. Len(s) :
                    s[k] = sep /\ \A j \in 1 .. k - 1 : s[j] # sep
         IN  << SubSeq(s, 1, p - 1) >> \o SplitOn(SubSeq(s, p + 1, Len(s)), sep)

RECURSIVE TrimLeft(_)
TrimLeft(s) ==
  IF s # << >> /\ Head(s) \in WhiteSpace THEN TrimLeft(Tail(s)) ELSE s

RECURSIVE TrimRight(_)
TrimRight(s) ==
  IF s # << >> /\ s[Len(s)] \in WhiteSpace
    THEN TrimRight(SubSeq(s, 1, Len(s) - 1)) ELSE s

\* String.prototype.trim()
Trim(s) == TrimRight(TrimLeft(s))

MapTrim(fields) == [k \in 1 .. Len(fields) |-> Trim(fields[k])]

\* marker[header] after headers.forEach((header, index) => marker[header] = values[index]):
\* the last column of that name wins; << >> is undefined (no such column, or a
\* column past the end of the row), << v >> is the string v
Column(headers, values, name) ==
  LET ks == {k \in 1 .. Len(headers) : headers[k] = name}
      last == CHOOSE k \in ks : \A j \in ks : j <= k
  IN  IF ks = {} THEN << >>
      ELSE IF last > Len(values) THEN << >>
      ELSE << values[last] >>

\* a test that takes "" for a value
TruthyDefined(v) == v # << >>

\* JavaScript truthiness of marker.gene: defined and not ""
Truthy(v) == v # << >> /\ v[1] # << >>

RECURSIVE ParseRows(_, _, _)
\* the loop "for (let i = 1; i < lines.length; i++)" from line i on
ParseRows(headers, lines, i) ==
  IF i > Len(lines) THEN << >>
  ELSE LET values == MapTrim(SplitOn(lines[i], ","))
           gene == Column(headers, values, <<"gene">>)
           variant == Column(headers, values, <<"variant">>)
           genotype == Column(headers, values, <<"genotype">>)
           here == IF Len(values) >= Len(headers)
                      /\ Truthy(gene) /\ Truthy(variant) /\ Truthy(genotype)
                     THEN << [gene |-> gene[1], variant |-> variant[1],
                              genotype |-> genotype[1]] >>
                     ELSE << >>
       IN  here \o ParseRows(headers, lines, i + 1)

NonBlank(line) == Trim(line) # << >>

\* parseGeneticFile: [ok |-> TRUE, markers |-> ...] or a thrown Error
parseGeneticFile(content) ==
  LET lines == SelectSeq(SplitOn(content, "\n"), NonBlank)
  IN  IF Len(lines) < 2
        THEN [ok |-> FALSE, markers |-> << >>,
              error |-> "File must contain at least a header and one data row"]
        ELSE LET headers == MapTrim(SplitOn(lines[1], ","))
                 markers == ParseRows(headers, lines, 2)
             IN  IF Len(markers) = 0
                   THEN [ok |-> FALSE, markers |-> << >>,
                         error |-> "No valid genetic markers found in file"]
                   ELSE [ok |-> TRUE, markers |-> markers, error |-> None]

(***************************************************************************)
(* Building file contents (the inputs of the model).                       *)
(***************************************************************************)
RECURSIVE Join(_, _)
Join(parts, sep) ==
  IF parts = << >> THEN << >>
  ELSE IF Len(parts) = 1 THEN parts[1]
  ELSE parts[1] \o << sep >> \o Join(Tail(parts), sep)

StdHeader == <<"gene", ",", "variant", ",", "genotype">>
StdRow == <<"BRCA1", ",", "rs1", ",", "AG">>

\* a well-formed CSV file of n data rows
Content(n) == Join(<< StdHeader >> \o [k \in 1 .. n |-> StdRow], "\n")

\* the words of the data rows: the field of row k in column c is RowCh[k] ColCh[c]
RowCh == << "a", "b", "c", "d" >>
ColCh == << "p", "q", "r", "s", "t", "u" >>
Word(k, c) == << RowCh[k], ColCh[c] >>

\* the header lines of the files given to parseGeneticFile alone
Headers ==
  { << "gene", "variant", "genotype" >>,
    << "genotype", "gene", "variant" >>,
    << "id", "gene", "variant", "genotype" >>,
    << "gene", "variant" >> }

\* a header line: every name followed by a blank, the line ended by "\r"
HeaderLine(h) == Join([c \in 1 .. Len(h) |-> << h[c], " " >>], ",") \o << "\r" >>

\* data row k of width w: every field led by a blank, field e (if any) left
\* empty, the line ended by "\r"
RowLine(k, w, e) ==
  Join([c \in 1 .. w |-> IF c = e THEN << " " >> ELSE << " " >> \o Word(k, c)], ",")
    \o << "\r" >>

\* a file: its header (<< >>: no line at all), the shape [width, empty] of its
\* rows, and its content
NoText == [header |-> << >>, rows |-> << >>, buffer |-> << >>]
NotCalled == [ok |-> FALSE, markers |-> << >>, error |-> "not called"]

(***************************************************************************)
(* routes.ts analyzeGeneticRisk.  A score is in tenths (5 is 0.5).  The    *)
(* table riskVariants is an object literal, so a property read that finds  *)
(* no own property goes on to Object.prototype; the values such reads can  *)
(* yield for the keys of JsKeys are modelled, with their own properties.   *)
(***************************************************************************)
riskVariants ==
  "ACE" :> (
    "rs4341" :> (
      "GG" :>
          [impact |-> "Low", score |-> 2, significance |-> "Optimal endurance performance",
           category |-> "Physical Activity & Sport",
           subcategory |-> "Endurance (Aerobic Predisposition)"] @@
      "AG" :>
          [impact |-> "Moderate", score |-> 4, significance |-> "Average endurance performance",
           category |-> "Physical Activity & Sport",
           subcategory |-> "Endurance (Aerobic Predisposition)"] @@
      "AA" :>
          [impact |-> "High", score |-> 7, significance |-> "Power/strength advantage over endurance",
           category |-> "Physical Activity & Sport",
           subcategory |-> "Power/Strength (Anaerobic Predisposition)"])) @@
  "ACTN3" :> (
    "rs1815739" :> (
      "TT" :>
          [impact |-> "Low", score |-> 2, significance |-> "Enhanced endurance performance",
           category |-> "Physical Activity & Sport",
           subcategory |-> "Endurance (Aerobic Predisposition)"] @@
      "CT" :>
          [impact |-> "Moderate", score |-> 4, significance |-> "Balanced power and endurance",
           category |-> "Physical Activity & Sport",
           subcategory |-> "Exercise Tolerance"] @@
      "CC" :>
          [impact |-> "High", score |-> 1, significance |-> "Superior power and strength",
           category |-> "Physical Activity & Sport",
           subcategory |-> "Power/Strength (Anaerobic Predisposition)"])) @@
  "PPARGC1A" :> (
    "rs8192678" :> (
      "GG" :>
          [impact |-> "Low", score |-> 2, significance |-> "Excellent mitochondrial function",
           category |-> "Physical Activity & Sport",
           subcategory |-> "Energy production during exercise"] @@
      "GT" :>
          [impact |-> "Moderate", score |-> 4, significance |-> "Average energy production",
           category |-> "Physical Activity & Sport",
           subcategory |-> "Energy production during exercise"] @@
      "TT" :>
          [impact |-> "High", score |-> 7, significance |-> "Reduced energy efficiency",
           category |-> "Physical Activity & Sport",
           subcategory |-> "Energy production during exercise"])) @@
  "AGT" :> (
    "rs699" :> (
      "AA" :>
          [impact |-> "Low", score |-> 2, significance |-> "Normal blood pressure regulation",
           category |-> "Cardiovascular Health",
           subcategory |-> "Blood Pressure"] @@
      "AG" :>
          [impact |-> "Moderate", score |-> 4, significance |-> "Moderate hypertension risk",
           category |-> "Cardiovascular Health",
           subcategory |-> "Blood Pressure"] @@
      "GG" :>
          [impact |-> "High", score |-> 8, significance |-> "Elevated blood pressure risk",
           category |-> "Cardiovascular Health",
           subcategory |-> "Blood Pressure"])) @@
  "APOE" :> (
    "rs429358" :> (
      "T/T" :>
          [impact |-> "Low", score |-> 1, significance |-> "Protective against Alzheimer's disease",
           category |-> "Genetic Risk for Specific Conditions",
           subcategory |-> "Alzheimer's Disease"] @@
      "C/T" :>
          [impact |-> "Moderate", score |-> 4, significance |-> "Moderate Alzheimer's risk (E3/E4)",
           category |-> "Genetic Risk for Specific Conditions",
           subcategory |-> "Alzheimer's Disease"] @@
      "C/C" :>
          [impact |-> "High", score |-> 9, significance |-> "Significantly elevated Alzheimer's risk (E4/E4)",
           category |-> "Genetic Risk for Specific Conditions",
           subcategory |-> "Alzheimer's Disease"])) @@
  "MTHFR" :> (
    "rs1801133" :> (
      "C/C" :>
          [impact |-> "Low", score |-> 1, significance |-> "Normal folate metabolism",
           category |-> "Cellular Pathways",
           subcategory |-> "Methylation"] @@
      "C/T" :>
          [impact |-> "Moderate", score |-> 4, significance |-> "Reduced folate metabolism efficiency",
           category |-> "Cellular Pathways",
           subcategory |-> "Methylation"] @@
      "T/T" :>
          [impact |-> "High", score |-> 8, significance |-> "Significantly impaired folate metabolism",
           category |-> "Cellular Pathways",
           subcategory |-> "Methylation"]) @@
    "rs1801131" :> (
      "A/A" :>
          [impact |-> "Low", score |-> 1, significance |-> "Normal methionine synthesis",
           category |-> "Cellular Pathways",
           subcategory |-> "Methylation"] @@
      "A/C" :>
          [impact |-> "Moderate", score |-> 3, significance |-> "Mildly reduced methionine synthesis",
           category |-> "Cellular Pathways",
           subcategory |-> "Methylation"] @@
      "C/C" :>
          [impact |-> "High", score |-> 7, significance |-> "Impaired methionine synthesis",
           category |-> "Cellular Pathways",
           subcategory |-> "Methylation"])) @@
  "VDR" :> (
    "rs2228570" :> (
      "CC" :>
          [impact |-> "Low", score |-> 2, significance |-> "Efficient vitamin D metabolism",
           category |-> "Nutrients & Compounds",
           subcategory |-> "Vitamin D Requirements"] @@
      "CT" :>
          [impact |-> "Moderate", score |-> 4, significance |-> "Moderately reduced vitamin D efficiency",
           category |-> "Nutrients & Compounds",
           subcategory |-> "Vitamin D Requirements"] @@
      "TT" :>
          [impact |-> "High", score |-> 8, significance |-> "Reduced vitamin D receptor function",
           category |-> "Nutrients & Compounds",
           subcategory |-> "Vitamin D Requirements"]) @@
    "rs1544410" :> (
      "AA" :>
          [impact |-> "Low", score |-> 2, significance |-> "Optimal vitamin D binding",
           category |-> "Nutrients & Compounds",
           subcategory |-> "Vitamin D Requirements"] @@
      "AG" :>
          [impact |-> "Moderate", score |-> 4, significance |-> "Moderately reduced vitamin D binding",
           category |-> "Nutrients & Compounds",
           subcategory |-> "Vitamin D Requirements"] @@
      "GG" :>
          [impact |-> "High", score |-> 7, significance |-> "Reduced vitamin D binding efficiency",
           category |-> "Nutrients & Compounds",
           subcategory |-> "Vitamin D Requirements"])) @@
  "HFE" :> (
    "rs1800562" :> (
      "GG" :>
          [impact |-> "Low", score |-> 1, significance |-> "Normal iron metabolism",
           category |-> "Immunity",
           subcategory |-> "Iron Deficiency Risk"] @@
      "GA" :>
          [impact |-> "Moderate", score |-> 4, significance |-> "Carrier for hemochromatosis",
           category |-> "Immunity",
           subcategory |-> "Iron Overload Susceptibility"] @@
      "AA" :>
          [impact |-> "High", score |-> 9, significance |-> "High risk for iron overload",
           category |-> "Immunity",
           subcategory |-> "Iron Overload Susceptibility"])) @@
  "TNF" :> (
    "rs1800629" :> (
      "GG" :>
          [impact |-> "Low", score |-> 2, significance |-> "Normal inflammatory response",
           category |-> "Cellular Pathways",
           subcategory |-> "Inflammation"] @@
      "GA" :>
          [impact |-> "Moderate", score |-> 5, significance |-> "Moderately elevated inflammation",
           category |-> "Cellular Pathways",
           subcategory |-> "Inflammation"] @@
      "AA" :>
          [impact |-> "High", score |-> 8, significance |-> "High inflammatory response",
           category |-> "Cellular Pathways",
           subcategory |-> "Inflammation"])) @@
  "IL6" :> (
    "rs1800795" :> (
      "GG" :>
          [impact |-> "Low", score |-> 2, significance |-> "Lower inflammatory response",
           category |-> "Cellular Pathways",
           subcategory |-> "Inflammation"] @@
      "GC" :>
          [impact |-> "Moderate", score |-> 4, significance |-> "Moderate inflammatory response",
           category |-> "Cellular Pathways",
           subcategory |-> "Inflammation"] @@
      "CC" :>
          [impact |-> "High", score |-> 8, significance |-> "Elevated inflammatory response",
           category |-> "Cellular Pathways",
           subcategory |-> "Inflammation"])) @@
  "GSTM1" :> (
    "rs1065411" :> (
      "PRS" :>
          [impact |-> "Low", score |-> 2, significance |-> "Present - good detoxification",
           category |-> "Cellular Pathways",
           subcategory |-> "Detoxification Phase 2"] @@
      "DEL" :>
          [impact |-> "High", score |-> 8, significance |-> "Deleted - impaired detoxification",
           category |-> "Cellular Pathways",
           subcategory |-> "Detoxification Phase 2"])) @@
  "COL1A1" :> (
    "rs1800012" :> (
      "GG" :>
          [impact |-> "Low", score |-> 2, significance |-> "Strong collagen production",
           category |-> "Healthy Ageing",
           subcategory |-> "Skin Firmness & Elasticity"] @@
      "GT" :>
          [impact |-> "Moderate", score |-> 4, significance |-> "Moderately reduced collagen strength",
           category |-> "Healthy Ageing",
           subcategory |-> "Skin Firmness & Elasticity"] @@
      "TT" :>
          [impact |-> "High", score |-> 8, significance |-> "Reduced collagen strength",
           category |-> "Healthy Ageing",
           subcategory |-> "Skin Firmness & Elasticity"])) @@
  "CYP1A2" :> (
    "rs762551" :> (
      "AA" :>
          [impact |-> "Low", score |-> 2, significance |-> "Fast caffeine metabolizer",
           category |-> "Dietary Sensitivities",
           subcategory |-> "Caffeine (Health & Diet)"] @@
      "AC" :>
          [impact |-> "Moderate", score |-> 4, significance |-> "Intermediate caffeine metabolism",
           category |-> "Dietary Sensitivities",
           subcategory |-> "Caffeine (Health & Diet)"] @@
      "CC" :>
          [impact |-> "High", score |-> 8, significance |-> "Slow caffeine metabolizer",
           category |-> "Dietary Sensitivities",
           subcategory |-> "Caffeine (Health & Diet)"]))

\* JavaScript values: an object of the table (depth: levels of objects below
\* it), a value of an entry, and what the prototype chain holds
Undefined == [kind |-> "undefined"]
Obj(own, depth) == [kind |-> "object", own |-> own, depth |-> depth]
Prim(x) == [kind |-> "primitive", value |-> x]
Fn(name, arity) == [kind |-> "function", name |-> name, arity |-> arity]
Str(s) == [kind |-> "string", value |-> s]
Num(n) == [kind |-> "number", value |-> n]

\* the keys of Object.prototype and of its values that the model reads
JsKeys == {"constructor", "toString", "name", "length"}
StrLen ==
  "Object" :> 6 @@ "Function" :> 8 @@ "String" :> 6 @@ "Number" :> 6 @@ "toString" :> 8

\* Object.prototype[key]
ObjectPrototype(key) ==
  IF key = "constructor" THEN Fn("Object", 1)
  ELSE IF key = "toString" THEN Fn("toString", 0)
  ELSE Undefined

\* v[key] for a key of the table or of JsKeys
Get(v, key) ==
  CASE v.kind = "object" ->
         IF key \in DOMAIN v.own
           THEN IF v.depth > 0 THEN Obj(v.own[key], v.depth - 1) ELSE Prim(v.own[key])
           ELSE ObjectPrototype(key)
    [] v.kind = "function" ->
         IF key = "name" THEN Str(v.name)
         ELSE IF key = "length" THEN Num(v.arity)
         ELSE IF key = "constructor" THEN Fn("Function", 1)
         ELSE IF key = "toString" THEN Fn("toString", 0)
         ELSE Undefined
    [] v.kind = "string" ->
         IF key = "length" THEN Num(StrLen[v.value])
         ELSE IF key = "constructor" THEN Fn("String", 1)
         ELSE IF key = "toString" THEN Fn("toString", 0)
         ELSE Undefined
    [] v.kind = "number" ->
         IF key = "constructor" THEN Fn("Number", 1)
         ELSE IF key = "toString" THEN Fn("toString", 1)
         ELSE Undefined
    [] v.kind = "primitive" -> Undefined

\* the truthiness "&&" tests
ToBoolean(v) ==
  CASE v.kind = "undefined" -> FALSE
    [] v.kind = "number" -> v.value # 0
    [] v.kind = "string" -> StrLen[v.value] # 0
    [] OTHER -> TRUE

analyzeGeneticRisk(gene, variant, genotype) ==
  LET geneData == Get(Obj(riskVariants, 3), gene)
  IN  IF /\ ToBoolean(geneData)
         /\ ToBoolean(Get(geneData, variant))
         /\ ToBoolean(Get(Get(geneData, variant), genotype))
        THEN LET data == Get(Get(geneData, variant), genotype)
             IN  [impact |-> Get(data, "impact"),
                  riskScore |-> Get(data, "score"),
                  clinicalSignificance |-> Get(data, "significance"),
                  category |-> Get(data, "category"),
                  subcategory |-> Get(data, "subcategory")]
        ELSE [impact |-> Prim("Unknown"),
              riskScore |-> Prim(5),
              clinicalSignificance |-> Prim("Variant of uncertain significance"),
              category |-> Prim("Other"),
              subcategory |-> Prim("Unknown")]

\* the triples given to analyzeGeneticRisk: the keys of the table, words that
\* are nowhere in it, and keys of JsKeys
Genes == DOMAIN riskVariants \cup {"XYZ", "constructor"}
Variants ==
  UNION {DOMAIN riskVariants[g] : g \in DOMAIN riskVariants}
    \cup {"rs0", "name", "constructor"}
Genotypes ==
  UNION {UNION {DOMAIN riskVariants[g][v] : v \in DOMAIN riskVariants[g]} :
           g \in DOMAIN riskVariants}
    \cup {"ZZ", "length", "name", "constructor"}
NoTriple == << >>
\* calls of analyzeGeneticRisk on the same triple
MaxCalls == 2

(***************************************************************************)
(* The text of an LLM answer.  As for the files, a text is a sequence of   *)
(* characters in which a word stands for a run of letters or digits: the   *)
(* characters the regular expressions of genetic-ai.ts and JSON.parse look *)
(* at are [ ] { } , : " and white space.  Two words are never adjacent.    *)
(* Numbers are counted in tenths (2.5 is 25).                              *)
(***************************************************************************)
Quote == "\""
\* words that match [a-zA-Z_][a-zA-Z0-9_]*
IdentWords == {"category", "riskLevel", "impact", "riskScore", "gene", "variant",
               "genotype", "High", "Heart", "Bone", "Sleep", "Skin", "MTHFR",
               "rs9", "TT", "Here"}
\* words that match [0-9.]+, with parseFloat of each
NumberWords == "3" :> 30 @@ "9" :> 90
\* the characters /\s/ matches
Space == WhiteSpace \cup {"\n"}
\* the characters /[\x00-\x1F\x7F]/ matches
Control == {"\n", "\r", "\t"}

JsonString(s) == [kind |-> "string", value |-> s]
JsonNumber(n) == [kind |-> "number", value |-> n]
JsonArray(items) == [kind |-> "array", items |-> items]
\* members: the pairs << key, value >> in the order of the text
JsonObject(members) == [kind |-> "object", members |-> members]
SyntaxError == [ok |-> FALSE, value |-> Undefined, rest |-> << >>]
Parsed(v, rest) == [ok |-> TRUE, value |-> v, rest |-> rest]

RECURSIVE SkipSpace(_)
SkipSpace(s) == IF s # << >> /\ Head(s) \in Space THEN SkipSpace(Tail(s)) ELSE s

StartsWith(s, c) == s # << >> /\ Head(s) = c

\* a JSON string at the head of s: up to the next quote, no control character
ParseString(s) ==
  IF ~StartsWith(s, Quote) \/ \A k \in 2 .. Len(s) : s[k] # Quote
    THEN SyntaxError
    ELSE LET close == CHOOSE k \in 2 .. Len(s) :
                        s[k] = Quote /\ \A j \in 2 .. k - 1 : s[j] # Quote
             body == SubSeq(s, 2, close - 1)
         IN  IF \E j \in 1 .. Len(body) : body[j] \in Control
               THEN SyntaxError
               ELSE Parsed(JsonString(body), SubSeq(s, close + 1, Len(s)))

RECURSIVE ParseValue(_)
RECURSIVE ParseItems(_, _)
RECURSIVE ParseMembers(_, _)

\* the elements of an array after "[" or ",": a value, then "," or "]"
ParseItems(s, acc) ==
  LET v == ParseValue(s)
      t == SkipSpace(v.rest)
  IN  IF ~v.ok THEN SyntaxError
      ELSE IF StartsWith(t, ",") THEN ParseItems(Tail(t), Append(acc, v.value))
      ELSE IF StartsWith(t, "]") THEN Parsed(JsonArray(Append(acc, v.value)), Tail(t))
      ELSE SyntaxError

\* the members of an object after "{" or ",": "key" : value, then "," or "}"
ParseMembers(s, acc) ==
  LET k == ParseString(SkipSpace(s))
      c == SkipSpace(k.rest)
      v == ParseValue(Tail(c))
      t == SkipSpace(v.rest)
      all == Append(acc, << k.value.value, v.value >>)
  IN  IF ~k.ok \/ ~StartsWith(c, ":") THEN SyntaxError
      ELSE IF ~v.ok THEN SyntaxError
      ELSE IF StartsWith(t, ",") THEN ParseMembers(Tail(t), all)
      ELSE IF StartsWith(t, "}") THEN Parsed(JsonObject(all), Tail(t))
      ELSE SyntaxError

ParseValue(s0) ==
  LET s == SkipSpace(s0)
  IN  IF s = << >> THEN SyntaxError
      ELSE IF Head(s) = "[" THEN
             IF StartsWith(SkipSpace(Tail(s)), "]")
               THEN Parsed(JsonArray(<< >>), Tail(SkipSpace(Tail(s))))
               ELSE ParseItems(Tail(s), << >>)
      ELSE IF Head(s) = "{" THEN
             IF StartsWith(SkipSpace(Tail(s)), "}")
               THEN Parsed(JsonObject(<< >>), Tail(SkipSpace(Tail(s))))
               ELSE ParseMembers(Tail(s), << >>)
      ELSE IF Head(s) = Quote THEN ParseString(s)
      ELSE IF Head(s) \in DOMAIN NumberWords
             THEN Parsed(JsonNumber(NumberWords[Head(s)]), Tail(s))
      ELSE SyntaxError

\* JSON.parse(text): one value and nothing but white space after it, or a
\* thrown SyntaxError (ok = FALSE)
JSONparse(text) ==
  LET v == ParseValue(text)
  IN  IF v.ok /\ SkipSpace(v.rest) = << >> THEN v ELSE SyntaxError

\* object[key] of a parsed object for a key that Object.prototype does not
\* hold: the last member of that name, or undefined
Member(object, key) ==
  LET ks == {k \in 1 .. Len(object.members) : object.members[k][1] = << key >>}
      last == CHOOSE k \in ks : \A j \in ks : j <= k
  IN  IF ks = {} THEN Undefined ELSE object.members[last][2]


(***************************************************************************)
(* genetic-ai.ts analyzeGeneticMarker over local-llm.ts, on the text of    *)
(* the answer.  server is what the LLM server does during the call:        *)
(*   health    "ok" (GET /api/tags answered 2xx), "status", "network"       *)
(*   generate  "ok", "status" (!response.ok), "network" (fetch rejected),  *)
(*             "timeout" (abort), "body" (response.json() rejected),       *)
(*             "noText" (the body holds no response field)                *)
(*   response  the text of data.response                                   *)
(* A call returns [threw, calls, value]: calls are the requests it sent.   *)
(***************************************************************************)
JsString(word) == JsonString(<< word >>)
NaN == [kind |-> "NaN"]

\* the truthiness "||" tests
JsTruthy(v) ==
  CASE v.kind = "undefined" -> FALSE
    [] v.kind = "NaN" -> FALSE
    [] v.kind = "number" -> v.value # 0
    [] v.kind = "string" -> v.value # << >>
    [] OTHER -> TRUE

\* a || b
OrElse(a, b) == IF JsTruthy(a) THEN a ELSE b

RECURSIVE TrimSpace(_)
TrimSpace(s) ==
  IF s # << >> /\ Head(s) \in Space THEN TrimSpace(Tail(s))
  ELSE IF s # << >> /\ s[Len(s)] \in Space THEN TrimSpace(SubSeq(s, 1, Len(s) - 1))
  ELSE s

\* Number(v) of a number or of a string (the answers of the model hold no
\* array or object where a number is read)
ToNumber(v) ==
  CASE v.kind = "number" -> v
    [] v.kind = "string" ->
         LET t == TrimSpace(v.value)
         IN  IF t = << >> THEN JsonNumber(0)
             ELSE IF Len(t) = 1 /\ t[1] \in DOMAIN NumberWords
                    THEN JsonNumber(NumberWords[t[1]])
             ELSE NaN
    [] OTHER -> NaN

\* Math.max(a, b), Math.min(a, b) on numbers in tenths
MathMax(a, b) ==
  IF a.kind = "NaN" \/ b.kind = "NaN" THEN NaN
  ELSE IF a.value >= b.value THEN a ELSE b
MathMin(a, b) ==
  IF a.kind = "NaN" \/ b.kind = "NaN" THEN NaN
  ELSE IF a.value <= b.value THEN a ELSE b

\* response.match(/\{[\s\S]*\}/): from the first "{" to the last "}"
MatchObject(text) ==
  LET opens == {k \in 1 .. Len(text) : text[k] = "{"}
      first == CHOOSE k \in opens : \A j \in opens : k <= j
      closes == {k \in 1 .. Len(text) : text[k] = "}" /\ opens # {} /\ k > first}
      last == CHOOSE k \in closes : \A j \in closes : j <= k
  IN  IF opens = {} \/ closes = {} THEN << >> ELSE << SubSeq(text, first, last) >>

RECURSIVE Flatten(_)
\* the pieces of a text put together again
Flatten(pieces) ==
  IF Len(pieces) = 0 THEN << >>
  ELSE IF Len(pieces) = 1 THEN pieces[1]
  ELSE LET half == Len(pieces) \div 2
       IN  Flatten(SubSeq(pieces, 1, half)) \o Flatten(SubSeq(pieces, half + 1, Len(pieces)))

\* .replace(/\s+/g, ' '): a run of white space becomes one space
CollapseSpace(s) ==
  Flatten([k \in 1 .. Len(s) |->
             IF s[k] \notin Space THEN << s[k] >>
             ELSE IF k > 1 /\ s[k - 1] \in Space THEN << >>
             ELSE << " " >>])

\* .replace(/[\x00-\x1F\x7F]/g, ' ').replace(/\s+/g, ' ').trim()
CleanObject(s) ==
  Trim(CollapseSpace([k \in 1 .. Len(s) |-> IF s[k] \in Control THEN " " ELSE s[k]]))

\* localLLM.checkHealth(): response.ok, or false when the fetch throws
checkHealth(server) ==
  [threw |-> FALSE, calls |-> << "/api/tags" >>, value |-> server.health = "ok"]

\* localLLM.generateResponse(): data.response, or a thrown Error
generateResponse(server) ==
  IF server.generate \in {"status", "network", "timeout", "body"}
    THEN [threw |-> TRUE, calls |-> << "/api/generate" >>, value |-> Undefined]
    ELSE [threw |-> FALSE, calls |-> << "/api/generate" >>,
          value |-> IF server.generate = "noText" THEN Undefined
                    ELSE JsonString(server.response)]

\* a result that takes gene, variant and genotype from the answer
parsedResultOfAnswer(marker, parsed) ==
  [gene |-> OrElse(Member(parsed, "gene"), marker.gene),
   variant |-> OrElse(Member(parsed, "variant"), marker.variant),
   genotype |-> OrElse(Member(parsed, "genotype"), marker.genotype),
   impact |-> OrElse(Member(parsed, "impact"), JsString("Unknown")),
   clinicalSignificance |->
     OrElse(Member(parsed, "clinicalSignificance"), JsString("VUS")),
   riskScore |->
     MathMin(JsonNumber(50),
             MathMax(JsonNumber(10),
                     ToNumber(OrElse(Member(parsed, "riskScore"), JsonNumber(30))))),
   healthCategory |->
     OrElse(Member(parsed, "healthCategory"), JsString("General Health")),
   subcategory |-> OrElse(Member(parsed, "subcategory"), JsString("Genetic Variant"))]

\* lines 72-83: the result made of the parsed answer (explanation and
\* recommendations are left out of the results of the model)
parsedResult(marker, parsed) ==
  [gene |-> marker.gene,
   variant |-> marker.variant,
   genotype |-> marker.genotype,
   impact |-> OrElse(Member(parsed, "impact"), JsString("Unknown")),
   clinicalSignificance |->
     OrElse(Member(parsed, "clinicalSignificance"), JsString("VUS")),
   riskScore |->
     MathMin(JsonNumber(50),
             MathMax(JsonNumber(10),
                     ToNumber(OrElse(Member(parsed, "riskScore"), JsonNumber(30))))),
   healthCategory |->
     OrElse(Member(parsed, "healthCategory"), JsString("General Health")),
   subcategory |-> OrElse(Member(parsed, "subcategory"), JsString("Genetic Variant"))]

\* lines 88-104
pendingResult(marker) ==
  [gene |-> marker.gene,
   variant |-> marker.variant,
   genotype |-> marker.genotype,
   impact |-> JsString("Pending Local Analysis"),
   clinicalSignificance |-> JsString("Local Model Required"),
   riskScore |-> JsonNumber(0),
   healthCategory |-> JsString("System Status"),
   subcategory |-> JsString("Model Configuration")]

\* lines 108-123
errorResult(marker) ==
  [gene |-> marker.gene,
   variant |-> marker.variant,
   genotype |-> marker.genotype,
   impact |-> JsString("Analysis Error"),
   clinicalSignificance |-> JsString("Connection Failed"),
   riskScore |-> JsonNumber(0),
   healthCategory |-> JsString("System Status"),
   subcategory |-> JsString("Model Connection")]

Thrown(calls) == [threw |-> TRUE, calls |-> calls, value |-> Undefined]
Returned(calls, v) == [threw |-> FALSE, calls |-> calls, value |-> v]

\* the try block of analyzeGeneticMarker, lines 53-104
analyzeGeneticMarkerTry(marker, server) ==
  LET isLocalLLMAvailable == checkHealth(server)
      response == generateResponse(server)
      calls == isLocalLLMAvailable.calls \o response.calls
      jsonMatch == MatchObject(response.value.value)
      parsed == JSONparse(CleanObject(jsonMatch[1]))
  IN  IF ~isLocalLLMAvailable.value
        THEN Returned(isLocalLLMAvailable.calls, pendingResult(marker))
      ELSE IF response.threw THEN Thrown(calls)
      \* undefined.match(...) is a TypeError
      ELSE IF response.value.kind = "undefined" THEN Thrown(calls)
      ELSE IF jsonMatch = << >> THEN Returned(calls, pendingResult(marker))
      ELSE IF ~parsed.ok THEN Thrown(calls)
      ELSE Returned(calls, parsedResult(marker, parsed.value))

\* analyzeGeneticMarker with its catch, lines 105-124
analyzeGeneticMarkerFull(marker, server) ==
  LET try == analyzeGeneticMarkerTry(marker, server)
  IN  IF try.threw THEN Returned(try.calls, errorResult(marker)) ELSE try


(***************************************************************************)
(* genetic-ai.ts generateRiskAssessments, on the text of the answer.       *)
(***************************************************************************)
\* response.match(/\[[\s\S]*?\]/): from the first "[" to the first "]" after it
MatchArray(text) ==
  LET opens == {k \in 1 .. Len(text) : text[k] = "["}
      first == CHOOSE k \in opens : \A j \in opens : k <= j
      closes == {k \in 1 .. Len(text) : text[k] = "]" /\ opens # {} /\ k > first}
      close == CHOOSE k \in closes : \A j \in closes : k <= j
  IN  IF opens = {} \/ closes = {} THEN << >> ELSE << SubSeq(text, first, close) >>

\* the position of the first character after position k that is no white
\* space; 0 when there is none
NextAfter(s, k) ==
  IF \A j \in k + 1 .. Len(s) : s[j] \in Space THEN 0
  ELSE CHOOSE j \in k + 1 .. Len(s) :
         s[j] \notin Space /\ \A x \in k + 1 .. j - 1 : s[x] \in Space

RECURSIVE LeftToRight(_, _)
\* the matches of a /g regular expression among the candidates (one for each
\* position where the expression matches): the leftmost one from position
\* from on, then the leftmost one that starts after its end
LeftToRight(candidates, from) ==
  LET later == {m \in candidates : m.from >= from}
      first == CHOOSE m \in later : \A x \in later : m.from <= x.from
  IN  IF later = {} THEN {}
      ELSE {first} \cup LeftToRight(candidates, first.to + 1)

\* String.prototype.replace: every match gives way to its replacement
Replace(s, matches) ==
  Flatten([k \in 1 .. Len(s) |->
             IF \E m \in matches : m.from = k
               THEN (CHOOSE m \in matches : m.from = k).by
             ELSE IF \E m \in matches : m.from < k /\ k <= m.to THEN << >>
             ELSE << s[k] >>])

\* .replace(/[\u0000-\u001F\u007F-\u009F]/g, "")
RemoveControl(s) == SelectSeq(s, LAMBDA c : c \notin Control)

\* .replace(/([{,]\s*)([a-zA-Z_][a-zA-Z0-9_]*)\s*:/g, '$1"$2":')
QuoteKeys(s) ==
  LET starts == {p \in 1 .. Len(s) :
                   /\ s[p] \in {"{", ","}
                   /\ NextAfter(s, p) # 0
                   /\ s[NextAfter(s, p)] \in IdentWords
                   /\ NextAfter(s, NextAfter(s, p)) # 0
                   /\ s[NextAfter(s, NextAfter(s, p))] = ":"}
      match(p) == LET key == NextAfter(s, p)
                  IN  [from |-> p, to |-> NextAfter(s, key),
                       by |-> SubSeq(s, p, key - 1) \o << Quote, s[key], Quote, ":" >>]
  IN  Replace(s, LeftToRight({match(p) : p \in starts}, 1))

\* the characters /[^",\[\]{}]/ does not match
ValueStop == {Quote, ",", "[", "]", "{", "}"}

\* the last position of the run of /[^",\[\]{}]/ characters after position p
RunEnd(s, p) ==
  IF \A j \in p + 1 .. Len(s) : s[j] \notin ValueStop THEN Len(s)
  ELSE (CHOOSE j \in p + 1 .. Len(s) :
          s[j] \in ValueStop /\ \A x \in p + 1 .. j - 1 : s[x] \notin ValueStop) - 1

\* .replace(/:\s*([^",\[\]{}]+)(\s*[,}])/g, ':"$1"$2'): $1 starts after the
\* white space that follows the colon (at the last character of a run that is
\* white space only) and ends where the run ends
QuoteValues(s) ==
  LET starts == {p \in 1 .. Len(s) :
                   /\ s[p] = ":"
                   /\ RunEnd(s, p) > p
                   /\ RunEnd(s, p) < Len(s)
                   /\ s[RunEnd(s, p) + 1] \in {",", "}"}}
      match(p) == LET end == RunEnd(s, p)
                      begin == IF NextAfter(s, p) > end THEN end ELSE NextAfter(s, p)
                  IN  [from |-> p, to |-> end + 1,
                       by |-> << ":", Quote >> \o SubSeq(s, begin, end)
                                \o << Quote, s[end + 1] >>]
  IN  Replace(s, LeftToRight({match(p) : p \in starts}, 1))

\* .replace(/","/g, '", "')
SpaceCommas(s) ==
  LET starts == {p \in 1 .. Len(s) - 2 :
                   s[p] = Quote /\ s[p + 1] = "," /\ s[p + 2] = Quote}
  IN  Replace(s, LeftToRight({[from |-> p, to |-> p + 2,
                               by |-> << Quote, ",", " ", Quote >>] : p \in starts}, 1))

\* .replace(/"\s*,\s*"/g, '", "')
NormalizeCommas(s) ==
  LET starts == {p \in 1 .. Len(s) :
                   /\ s[p] = Quote
                   /\ NextAfter(s, p) # 0
                   /\ s[NextAfter(s, p)] = ","
                   /\ NextAfter(s, NextAfter(s, p)) # 0
                   /\ s[NextAfter(s, NextAfter(s, p))] = Quote}
  IN  Replace(s, LeftToRight({[from |-> p, to |-> NextAfter(s, NextAfter(s, p)),
                               by |-> << Quote, ",", " ", Quote >>] : p \in starts}, 1))

\* lines 169-172: cut after the last "}" (lastIndexOf > 0) and close the array
CutAfterLastBrace(s) ==
  LET braces == {k \in 2 .. Len(s) : s[k] = "}"}
      lastBraceIndex == CHOOSE k \in braces : \A j \in braces : j <= k
  IN  IF braces = {} THEN s ELSE SubSeq(s, 1, lastBraceIndex) \o << "]" >>

\* cleanJson of lines 157-172
RepairArray(jsonMatch) ==
  CutAfterLastBrace(NormalizeCommas(SpaceCommas(QuoteValues(QuoteKeys(
    RemoveControl(jsonMatch))))))

\* the matches in the order of the text
InOrder(matches) ==
  [j \in 1 .. Cardinality(matches) |->
     CHOOSE m \in matches : Cardinality({x \in matches : x.from < m.from}) = j - 1]

\* response.match(/"category":\s*"([^"]+)"/g), with the group of each match
categoryMatches(response) ==
  LET value(p) == NextAfter(response, p + 3)
      close(p) == CHOOSE k \in value(p) + 1 .. Len(response) :
                    /\ response[k] = Quote
                    /\ \A j \in value(p) + 1 .. k - 1 : response[j] # Quote
      starts == {p \in 1 .. Len(response) - 3 :
                   /\ response[p] = Quote /\ response[p + 1] = "category"
                   /\ response[p + 2] = Quote /\ response[p + 3] = ":"
                   /\ value(p) # 0
                   /\ response[value(p)] = Quote
                   /\ \E k \in value(p) + 2 .. Len(response) : response[k] = Quote
                   /\ response[value(p) + 1] # Quote}
  IN  InOrder(LeftToRight({[from |-> p, to |-> close(p),
                            by |-> SubSeq(response, value(p) + 1, close(p) - 1)] :
                             p \in starts}, 1))

\* response.match(/"riskLevel":\s*([0-9.]+)/g), with the number of each match
riskMatches(response) ==
  LET value(p) == NextAfter(response, p + 3)
      starts == {p \in 1 .. Len(response) - 3 :
                   /\ response[p] = Quote /\ response[p + 1] = "riskLevel"
                   /\ response[p + 2] = Quote /\ response[p + 3] = ":"
                   /\ value(p) # 0
                   /\ response[value(p)] \in DOMAIN NumberWords}
  IN  InOrder(LeftToRight({[from |-> p, to |-> value(p),
                            by |-> response[value(p)]] : p \in starts}, 1))

\* lines 205-211 and lines 215-221
placeholderRetry ==
  [category |-> JsString("General Health"),
   subcategory |-> JsString("Overall Risk"),
   riskLevel |-> JsonNumber(25),
   description |-> JsString("Risk assessment could not be completed. Please try again."),
   recommendation |-> JsString("Contact support if this issue persists.")]
placeholder ==
  [category |-> JsString("General Health"),
   subcategory |-> JsString("Overall Risk"),
   riskLevel |-> JsonNumber(25),
   description |-> JsString("Risk assessment could not be completed."),
   recommendation |-> JsString("Please try again.")]

\* categoryMatches.slice(0, 4) without the slice
fallbackAssessmentsAll(response) ==
  LET found == categoryMatches(response)
      risks == riskMatches(response)
  IN  [index \in 1 .. Len(found) |->
         [category |-> JsonString(found[index].by),
          subcategory |-> JsString("Risk Assessment"),
          riskLevel |-> IF index <= Len(risks)
                          THEN JsonNumber(NumberWords[risks[index].by])
                          ELSE JsonNumber(25),
          description |-> JsonString(<< "Risk assessment for " >> \o found[index].by),
          recommendation |->
            JsString("Consult with healthcare provider for detailed guidance.")]]

\* lines 187-198: categoryMatches.slice(0, 4).map(...)
fallbackAssessments(response) ==
  LET found == categoryMatches(response)
      risks == riskMatches(response)
  IN  [index \in 1 .. Min(4, Len(found)) |->
         [category |-> JsonString(found[index].by),
          subcategory |-> JsString("Risk Assessment"),
          riskLevel |-> IF index <= Len(risks)
                          THEN JsonNumber(NumberWords[risks[index].by])
                          ELSE JsonNumber(25),
          description |-> JsonString(<< "Risk assessment for " >> \o found[index].by),
          recommendation |->
            JsString("Consult with healthcare provider for detailed guidance.")]]

\* the try block of generateRiskAssessments, lines 147-221
generateRiskAssessmentsTry(server) ==
  LET response == generateResponse(server)
      jsonMatch == MatchArray(response.value.value)
      assessments == JSONparse(RepairArray(jsonMatch[1]))
  IN  IF response.threw THEN Thrown(response.calls)
      \* undefined.match(...) is a TypeError
      ELSE IF response.value.kind = "undefined" THEN Thrown(response.calls)
      ELSE IF jsonMatch = << >> THEN Returned(response.calls, << placeholder >>)
      ELSE IF assessments.ok
        THEN Returned(response.calls,
                      IF assessments.value.kind = "array"
                        THEN assessments.value.items ELSE << >>)
      \* catch (parseError)
      ELSE IF Len(categoryMatches(response.value.value)) > 1
        THEN Returned(response.calls, fallbackAssessments(response.value.value))
      ELSE Returned(response.calls, << placeholderRetry >>)

\* generateRiskAssessments with its catch, lines 222-225
generateRiskAssessmentsFull(server) ==
  LET try == generateRiskAssessmentsTry(server)
  IN  IF try.threw THEN Returned(try.calls, << >>) ELSE try


\* the markers given to analyzeGeneticMarker alone
JsMarker(gene, variant, genotype) ==
  [gene |-> JsString(gene), variant |-> JsString(variant), genotype |-> JsString(genotype)]
TestMarkers == {JsMarker("BRCA1", "rs1", "AG"), JsMarker("MTHFR", "rs9", "TT")}

\* no call of genetic-ai.ts has been asked for, none has returned
NoCall == [asked |-> "no", marker |-> JsMarker("", "", ""), health |-> "ok",
           generate |-> "ok", written |-> 0, response |-> << >>]
NoReturn == [threw |-> FALSE, calls |-> << >>, value |-> Undefined]

\* key: "word" or key: number, as the answer writes it
Field(key, word) == << Quote, key, Quote, ":", Quote, word, Quote >>
NumberField(key, word) == << Quote, key, Quote, ":", word >>

\* an answer with every key, about another marker than BRCA1 rs1 AG
FullAnswer ==
  << "{" >> \o Field("gene", "MTHFR") \o << "," >> \o Field("variant", "rs9")
    \o << "," >> \o Field("genotype", "TT") \o << ",", " " >>
    \o Field("impact", "High") \o << "," >> \o NumberField("riskScore", "9")
    \o << "}" >>
\* an answer with an empty impact and a riskScore in words
VagueAnswer ==
  << "{", Quote, "impact", Quote, ":", Quote, Quote, ",", "\n" >>
    \o Field("riskScore", "High") \o << "}" >>

\* the pieces of the answers given to analyzeGeneticMarker: the two objects,
\* single braces, prose, a line break
MarkerChunks ==
  { FullAnswer, VagueAnswer, << "{" >>, << "}" >>, << "Here", " " >>, << "\n" >> }

\* an assessment as the prompt asks for it, and one with bare keys and values
GoodAssessment ==
  << "{" >> \o Field("category", "Heart") \o << "," >>
    \o NumberField("riskLevel", "3") \o << "}" >>
BareAssessment ==
  << "{", "category", ":", " ", "Bone", ",", " ", "riskLevel", ":", " ", "9", "}" >>
\* two assessments with no comma between them
PairOfAssessments ==
  << "{" >> \o Field("category", "Sleep") \o << ",", Quote, "riskLevel", Quote, ":", " ", "9", "}" >>
    \o << "{" >> \o Field("category", "Skin") \o << "}" >>

\* the pieces of the answers given to generateRiskAssessments: the start of an
\* array with a first assessment, a further assessment, a pair, brackets, prose
AssessChunks ==
  { << "[" >> \o GoodAssessment, << ",", " " >> \o BareAssessment,
    << " " >> \o PairOfAssessments, << "]" >>, << "[" >>, << "Here", " " >> }

\* an answer holds up to MaxAnswer pieces
MaxAnswer == 4

(***************************************************************************)
(* State.                                                                  *)
(***************************************************************************)
VARIABLES
  now,                 \* Date.now()
  input,               \* input[r]: the upload request of run r (req.file)
  rpc,                 \* rpc[r]: the await the upload handler of run r is at
  analysisId,          \* analysisId[r]: Date.now().toString(), the progress id
  fileData,            \* fileData[r].markers
  analysis,            \* analysis[r]: analysis.id, 0 before the row exists
  i,                   \* i[r]: the batch loop's index
  mpc,                 \* mpc[r][m]: where the promise of marker m is
  result,              \* result[r][m]: impact of the record the promise holds
  analyzedMarkers,     \* analyzedMarkers[r]
  risk,                \* risk[r]: riskAssessments still to store, and how many stored
  responses,           \* responses[r]: what was sent on res
  dbAnalyses,          \* table genetic_analyses (row k has id k)
  dbMarkers,           \* table genetic_markers, a bag of rows
  dbRisk,              \* table risk_assessments, a bag of rows
  dbChat,              \* table chat_messages, a bag of rows
  genCalls,            \* genCalls[r][m]: POSTs to /api/generate for marker m
  riskCalls,           \* riskCalls[r]: POSTs to /api/generate for the assessments
  dbFailed,            \* dbFailed[r]: a storage call of run r has failed (history)
  posted,              \* the analysisId of every createChatMessage call (history)
  progressConnections, \* the Map of progress-sse.ts: id -> connection or None
  sock,                \* sock[c]: the Response object of connection c
  emitted,             \* emitted[r]: the calls run r made into progress-sse.ts,
                       \* recorded when emitted[r].on (history)
  progressId,          \* progressId[r]: the progressId state of the dashboard that
                       \* sent request r
  pfile,               \* a file being written, to be given to parseGeneticFile
  pout,                \* what parseGeneticFile returned for pfile
  gquery,              \* a (gene, variant, genotype) given to analyzeGeneticRisk
  gout,                \* what the calls of analyzeGeneticRisk on gquery returned
  llm,                 \* what the LLM server does during one call of genetic-ai.ts
  lout                 \* what that call returned

pipeVars == << now, input, rpc, analysisId, fileData, analysis, i, mpc, result,
               analyzedMarkers, risk, responses, genCalls, riskCalls, dbFailed >>
dbVars == << dbAnalyses, dbMarkers, dbRisk, dbChat, posted >>
sseVars == << progressConnections, sock, emitted, progressId >>
parseVars == << pfile, pout, gquery, gout, llm, lout >>
vars == << pipeVars, dbVars, sseVars, parseVars >>

\* positions of the rows of a file
Markers == 1 .. maxMarkers + ExtraMarkers

\* the slice forgotten: every marker of the file
markersToAnalyzeAll(r) == fileData[r]

\* fileData.markers.slice(0, maxMarkers)
markersToAnalyze(r) == SubSeq(fileData[r], 1, Min(Len(fileData[r]), maxMarkers))

\* slice(i, i + batchSize + 1): one marker too many
batchWide(r, ii) ==
  {m \in 1 .. Len(markersToAnalyze(r)) : ii < m /\ m <= ii + batchSize + 1}

\* the markers of markersToAnalyze.slice(i, i + batchSize), as 1-based positions
batch(r, ii) == {m \in 1 .. Len(markersToAnalyze(r)) : ii < m /\ m <= ii + batchSize}

(***************************************************************************)
(* progress-sse.ts                                                         *)
(***************************************************************************)
Event(type, current) == [type |-> type, current |-> current]

\* the test "connection &&" forgotten: connection.headersSent of undefined
\* is a TypeError
sendProgressUpdateNoGuard(conns, socks, id, data) ==
  LET connection == conns[id]
  IN  IF connection = None
        THEN [conns |-> conns, socks |-> socks, threw |-> TRUE]
        ELSE IF ~socks[connection].headersSent /\ socks[connection].state = "open"
          THEN [conns |-> conns,
                socks |-> [socks EXCEPT ![connection].written = Append(@, data)],
                threw |-> FALSE]
          ELSE [conns |-> conns, socks |-> socks, threw |-> FALSE]

\* sendProgressUpdate(analysisId, data) on registry conns and sockets socks:
\* the registry and the sockets after the call, and whether the call threw
\* (the only statement that can throw, connection.write, is inside the try)
sendProgressUpdate(conns, socks, id, data) ==
  LET connection == conns[id]
  IN  IF connection # None /\ ~socks[connection].headersSent
        THEN IF socks[connection].state = "open"
               THEN [conns |-> conns,
                     socks |-> [socks EXCEPT ![connection].written =
                                                Append(@, data)],
                     threw |-> FALSE]
               \* connection.write threw: progressConnections.delete(analysisId)
               ELSE [conns |-> [conns EXCEPT ![id] = None], socks |-> socks,
                     threw |-> FALSE]
        ELSE [conns |-> conns, socks |-> socks, threw |-> FALSE]

RECURSIVE sendAll(_, _, _, _)
\* sendProgressUpdate for each element of datas, in order
sendAll(conns, socks, id, datas) ==
  IF datas = << >> THEN [conns |-> conns, socks |-> socks]
  ELSE LET one == sendProgressUpdate(conns, socks, id, Head(datas))
       IN  sendAll(one.conns, one.socks, id, Tail(datas))

\* progressConnections.delete(analysisId) of line 65 left out
cleanupKeepsEntry(conns, socks, id) ==
  LET connection == conns[id]
  IN  IF connection # None
        THEN [conns |-> conns,
              socks |-> [socks EXCEPT ![connection].state =
                                         IF @ = "open" THEN "ended" ELSE @]]
        ELSE [conns |-> conns, socks |-> socks]

\* cleanupProgressConnection(analysisId)
cleanupProgressConnection(conns, socks, id) ==
  LET connection == conns[id]
  IN  IF connection # None
        THEN [conns |-> [conns EXCEPT ![id] = None],
              socks |-> [socks EXCEPT ![connection].state =
                                         IF @ = "open" THEN "ended" ELSE @]]
        ELSE [conns |-> conns, socks |-> socks]

\* early (history): the connection was opened before any upload had started
NoSock == [state |-> "unused", id |-> 0, headersSent |-> FALSE, written |-> << >>,
           early |-> FALSE]

\* run r called sendProgressUpdate with the data of evs, in that order (or
\* cleanupProgressConnection, recorded as "cleanup")
logged(r, evs) ==
  emitted' = [emitted EXCEPT ![r] = IF @.on THEN [@ EXCEPT !.log = @ \o evs] ELSE @]
\* the dashboard's progressId is null: FileUpload never calls the
\* onUploadStart it is given (file-upload.tsx 94-98)
NoId == -1
NotObserved == [r \in Runs |-> [on |-> FALSE, log |-> << >>]]
Observed == [r \in Runs |-> [on |-> TRUE, log |-> << >>]]

\* GET /api/progress/:analysisId
Connect(c, id) ==
  /\ sock[c].state = "unused"
  /\ sock' = [sock EXCEPT ![c] =
                [state |-> "open", id |-> id,
                 \* res.writeHead(200, ...) sends the headers
                 headersSent |-> TRUE,
                 written |-> << Event("connected", 0) >>,
                 early |-> \A r \in Runs : rpc[r] = "idle"]]
  /\ progressConnections' = [progressConnections EXCEPT ![id] = c]
  /\ UNCHANGED << pipeVars, dbVars, parseVars, emitted, progressId >>

\* req.on('close'): the client went away, or the ended response was closed
Close(c) ==
  /\ sock[c].state \in {"open", "ended"}
  /\ sock' = [sock EXCEPT ![c].state = "closed"]
  /\ progressConnections' = [progressConnections EXCEPT ![sock[c].id] = None]
  /\ UNCHANGED << pipeVars, dbVars, parseVars, emitted, progressId >>

(***************************************************************************)
(* storage.ts: the inserts.  A call that fails inserts nothing.            *)
(***************************************************************************)
\* createGeneticAnalysis: the row as inserted
createGeneticAnalysis(r, totalMarkers) ==
  [id |-> Len(dbAnalyses) + 1, run |-> r, totalMarkers |-> totalMarkers,
   analyzedVariants |-> 0, status |-> "completed"]

\* getAllGeneticAnalyses: the rows a reader gets (as a set: the order by
\* createdAt is not modelled)
getAllGeneticAnalyses == {dbAnalyses[k] : k \in 1 .. Len(dbAnalyses)}

\* the row filed under the newest analysis instead of the handler's own
markerRowNewest(r, aid, idx, impact) ==
  [analysisId |-> Len(dbAnalyses), run |-> r, idx |-> idx, impact |-> impact]

\* an InsertGeneticMarker: idx is the marker's position in the file and stands
\* for its gene, variant and genotype; run is the upload whose handler made
\* the call
markerRow(r, aid, idx, impact) ==
  [analysisId |-> aid, run |-> r, idx |-> idx, impact |-> impact]

\* createRiskAssessment: the row as inserted
createRiskAssessment(r, aid, k) == [analysisId |-> aid, run |-> r, k |-> k]

\* rows of failed analyses left out
createGeneticMarkerSkipErrors(row) ==
  IF row.impact = "Analysis Error" THEN dbMarkers ELSE dbMarkers (+) SetToBag({row})

\* createGeneticMarker: the table after db.insert(geneticMarkers).values(row)
createGeneticMarker(row) == dbMarkers (+) SetToBag({row})

\* get...ByAnalysisId: where(eq(table.analysisId, analysisId))
byAnalysisId(table, aid) ==
  [row \in {x \in BagToSet(table) : x.analysisId = aid} |-> table[row]]

getGeneticMarkersByAnalysisId(aid) == byAnalysisId(dbMarkers, aid)
getRiskAssessmentsByAnalysisId(aid) == byAnalysisId(dbRisk, aid)
getChatMessagesByAnalysisId(aid) == byAnalysisId(dbChat, aid)

(***************************************************************************)
(* routes.ts: POST /api/upload-genetic-data                                *)
(***************************************************************************)
\* rows: the number of valid data rows the file was built with
NoRequest == [kind |-> "none", rows |-> 0, buffer |-> << >>]
NoFile == [kind |-> "nofile", rows |-> 0, buffer |-> << >>]
File(n) == [kind |-> "file", rows |-> n, buffer |-> Content(n)]

Reply(status, aid, pid, total, pct) ==
  [status |-> status, analysisId |-> aid, progressId |-> pid,
   totalMarkers |-> total, analyzedVariants |-> pct]

\* Math.round((a / b) * 100)
Percent(a, b) == (200 * a + b) \div (2 * b)

\* waiting until every promise is fulfilled
\* the handler going on as soon as one promise of the batch has settled
someSettled(r, mp) == \E m \in batch(r, i[r]) : mp[m] \in {"fulfilled", "rejected"}

allFulfilled(r, mp) == \A m \in batch(r, i[r]) : mp[m] = "fulfilled"

\* Promise.allSettled(batchPromises) has resolved
allSettled(r, mp) == \A m \in batch(r, i[r]) : mp[m] \in {"fulfilled", "rejected"}

RECURSIVE fulfilledFrom(_, _, _, _)
\* the values of the fulfilled promises of positions m..last, in batch order
fulfilledFrom(mp, res, m, last) ==
  IF m > last THEN << >>
  ELSE (IF mp[m] = "fulfilled" THEN << [idx |-> m, impact |-> res[m]] >> ELSE << >>)
       \o fulfilledFrom(mp, res, m + 1, last)

\* the filter on status === 'fulfilled' left out: one result per promise
settledResults(r, mp, res) ==
  [k \in 1 .. Min(i[r] + batchSize, Len(markersToAnalyze(r))) - i[r] |->
     [idx |-> i[r] + k, impact |-> res[i[r] + k]]]

successfulResults(r, mp, res) ==
  fulfilledFrom(mp, res, i[r] + 1, Min(i[r] + batchSize, Len(markersToAnalyze(r))))

\* batch.map(async ...) up to the first await of every promise: the
\* marker_progress updates in batch order, every promise waiting for checkHealth
startBatch(r, ii, aid) ==
  LET b == batch(r, ii)
      n == Cardinality(b)
      sent == sendAll(progressConnections, sock, aid,
                      [k \in 1 .. n |-> Event("marker_progress", ii + k)])
  IN  /\ mpc' = [mpc EXCEPT ![r] = [m \in Markers |->
                                      IF m \in b THEN "health" ELSE @[m]]]
      /\ progressConnections' = sent.conns
      /\ sock' = sent.socks
      /\ logged(r, [k \in 1 .. n |-> Event("marker_progress", ii + k)])
      /\ UNCHANGED progressId

\* the test "analyzedMarkers.length > 0" of line 206 left out
afterMarkerAlwaysRisk(r, mp, res) ==
  IF ~allSettled(r, mp)
    THEN UNCHANGED << rpc, analyzedMarkers, riskCalls >>
    ELSE LET am == analyzedMarkers[r] \o successfulResults(r, mp, res)
         IN  /\ analyzedMarkers' = [analyzedMarkers EXCEPT ![r] = am]
             /\ IF i[r] + batchSize < Len(markersToAnalyze(r))
                  THEN /\ rpc' = [rpc EXCEPT ![r] = "delay"]
                       /\ UNCHANGED riskCalls
                  ELSE /\ rpc' = [rpc EXCEPT ![r] = "risk"]
                       /\ riskCalls' = [riskCalls EXCEPT ![r] = @ + 1]

\* the handler after "await Promise.allSettled" when the promises are in mp
afterMarker(r, mp, res) ==
  IF ~allSettled(r, mp)
    THEN UNCHANGED << rpc, analyzedMarkers, riskCalls >>
    ELSE LET am == analyzedMarkers[r] \o successfulResults(r, mp, res)
         IN  /\ analyzedMarkers' = [analyzedMarkers EXCEPT ![r] = am]
             /\ IF i[r] + batchSize < Len(markersToAnalyze(r))
                  THEN /\ rpc' = [rpc EXCEPT ![r] = "delay"]
                       /\ UNCHANGED riskCalls
                  ELSE IF Len(am) > 0
                    THEN /\ rpc' = [rpc EXCEPT ![r] = "risk"]
                         /\ riskCalls' = [riskCalls EXCEPT ![r] = @ + 1]
                    ELSE /\ rpc' = [rpc EXCEPT ![r] = "update"]
                         /\ UNCHANGED riskCalls

\* a storage call of run r settled: remember a failure
failed(r, ok) == dbFailed' = [dbFailed EXCEPT ![r] = @ \/ ~ok]

\* Date.now() advances; only the moment a request arrives reads it
Tick ==
  /\ now < MaxClock
  /\ \E r \in Runs : rpc[r] = "idle" /\ input[r].kind # "none"
  /\ now' = now + 1
  /\ UNCHANGED << input, rpc, analysisId, fileData, analysis, i, mpc, result,
                  analyzedMarkers, risk, responses, genCalls, riskCalls, dbFailed >>
  /\ UNCHANGED << dbVars, sseVars, parseVars >>

\* the request arrives: lines 67-92, up to "await storage.createGeneticAnalysis"
UploadStart(r) ==
  /\ rpc[r] = "idle"
  /\ input[r].kind # "none"
  /\ IF input[r].kind = "nofile"
       THEN /\ responses' = [responses EXCEPT ![r] = Append(@, Reply(400, 0, 0, 0, 0))]
            /\ rpc' = [rpc EXCEPT ![r] = "done"]
            /\ UNCHANGED << analysisId, fileData, sseVars >>
       ELSE LET parsed == parseGeneticFile(input[r].buffer)
            IN  /\ analysisId' = [analysisId EXCEPT ![r] = now]
                /\ IF ~parsed.ok
                     THEN /\ responses' = [responses EXCEPT ![r] =
                                             Append(@, Reply(500, 0, 0, 0, 0))]
                          /\ rpc' = [rpc EXCEPT ![r] = "done"]
                          /\ UNCHANGED << fileData, sseVars >>
                     ELSE LET sent == sendProgressUpdate(progressConnections, sock, now,
                                        Event("analysis_started", 0))
                          IN  /\ fileData' = [fileData EXCEPT ![r] = parsed.markers]
                              /\ rpc' = [rpc EXCEPT ![r] = "createAnalysis"]
                              /\ progressConnections' = sent.conns
                              /\ sock' = sent.socks
                              /\ logged(r, << Event("analysis_started", 0) >>)
                              /\ UNCHANGED progressId
                              /\ UNCHANGED responses
  /\ UNCHANGED << now, input, analysis, i, mpc, result, analyzedMarkers, risk,
                  genCalls, riskCalls, dbFailed >>
  /\ UNCHANGED << dbVars, parseVars >>

\* storage.createGeneticAnalysis settles: lines 92-192 up to the first
\* allSettled, or the catch of line 257
CreateAnalysisReturn(r, ok) ==
  /\ rpc[r] = "createAnalysis"
  /\ IF ok
       THEN LET row == createGeneticAnalysis(r, Len(fileData[r]))
            IN  /\ dbAnalyses' = Append(dbAnalyses, row)
                /\ analysis' = [analysis EXCEPT ![r] = row.id]
                /\ rpc' = [rpc EXCEPT ![r] = "batch"]
                /\ startBatch(r, 0, analysisId[r])
                /\ UNCHANGED responses
       ELSE /\ responses' = [responses EXCEPT ![r] = Append(@, Reply(500, 0, 0, 0, 0))]
            /\ rpc' = [rpc EXCEPT ![r] = "done"]
            /\ UNCHANGED << dbAnalyses, analysis, mpc, sseVars >>
  /\ failed(r, ok)
  /\ UNCHANGED << now, input, analysisId, fileData, i, result, analyzedMarkers,
                  risk, genCalls, riskCalls >>
  /\ UNCHANGED << dbMarkers, dbRisk, dbChat, posted, parseVars >>

(***************************************************************************)
(* genetic-ai.ts analyzeGeneticMarker over local-llm.ts, one marker        *)
(***************************************************************************)
\* analysis.impact of a parsed answer
LLMImpacts == {"High", "Low"}

markerVarsUnchanged ==
  UNCHANGED << now, input, analysisId, fileData, analysis, i, risk, responses >>

\* localLLM.checkHealth() settles.  ok: GET /api/tags answered with a 2xx
\* status, generateResponse starts its timer and POSTs to /api/generate.
\* ~ok: another status or a failed fetch; analyzeGeneticMarker returns the
\* 'Pending Local Analysis' result and the route calls createGeneticMarker.
HealthReturn(r, m, ok) ==
  /\ rpc[r] = "batch"
  /\ mpc[r][m] = "health"
  /\ IF ok
       THEN /\ mpc' = [mpc EXCEPT ![r][m] = "llm"]
            /\ genCalls' = [genCalls EXCEPT ![r][m] = @ + 1]
            /\ UNCHANGED result
       ELSE /\ mpc' = [mpc EXCEPT ![r][m] = "store"]
            /\ result' = [result EXCEPT ![r][m] = "Pending Local Analysis"]
            /\ UNCHANGED genCalls
  /\ markerVarsUnchanged
  /\ UNCHANGED << rpc, analyzedMarkers, riskCalls, dbFailed, dbVars, sseVars,
                  parseVars >>

\* the fetch of generateResponse settles before the timer fires.  "ok": a 2xx
\* status, clearTimeout, then await response.json().  "status": !response.ok,
\* "network": the fetch rejected; both are rethrown and analyzeGeneticMarker
\* returns the 'Analysis Error' result.
GenerateFetched(r, m, how) ==
  /\ rpc[r] = "batch"
  /\ mpc[r][m] = "llm"
  /\ IF how = "ok"
       THEN /\ mpc' = [mpc EXCEPT ![r][m] = "body"]
            /\ UNCHANGED result
       ELSE /\ mpc' = [mpc EXCEPT ![r][m] = "store"]
            /\ result' = [result EXCEPT ![r][m] = "Analysis Error"]
  /\ markerVarsUnchanged
  /\ UNCHANGED << rpc, analyzedMarkers, genCalls, riskCalls, dbFailed, dbVars,
                  sseVars, parseVars >>

\* the call issued once more after the first timeout
GenerateTimeoutRetry(r, m) ==
  /\ rpc[r] = "batch"
  /\ mpc[r][m] = "llm"
  /\ IF genCalls[r][m] < 2
       THEN /\ genCalls' = [genCalls EXCEPT ![r][m] = @ + 1]
            /\ UNCHANGED << mpc, result >>
       ELSE /\ mpc' = [mpc EXCEPT ![r][m] = "store"]
            /\ result' = [result EXCEPT ![r][m] = "Analysis Error"]
            /\ UNCHANGED genCalls
  /\ UNCHANGED << now, input, analysisId, fileData, analysis, i, risk, responses >>
  /\ UNCHANGED << rpc, analyzedMarkers, riskCalls, dbFailed, dbVars, sseVars,
                  parseVars >>

\* setTimeout(() => controller.abort(), 120000) fires while the fetch is
\* pending: AbortError, rethrown as the timeout error
GenerateTimeout(r, m) ==
  /\ rpc[r] = "batch"
  /\ mpc[r][m] = "llm"
  /\ mpc' = [mpc EXCEPT ![r][m] = "store"]
  /\ result' = [result EXCEPT ![r][m] = "Analysis Error"]
  /\ markerVarsUnchanged
  /\ UNCHANGED << rpc, analyzedMarkers, genCalls, riskCalls, dbFailed, dbVars,
                  sseVars, parseVars >>

\* what analyzeGeneticMarker returns for the text of the answer.  answer.kind:
\* "json" (a {...} that parses, with its impact), "noJson" (no {...} in the
\* text), "badJson" (JSON.parse throws), "fail" (response.json() rejected or
\* the body has no response text)
analyzeGeneticMarker(answer) ==
  IF answer.kind = "json" THEN answer.impact
  ELSE IF answer.kind = "noJson" THEN "Pending Local Analysis"
  ELSE "Analysis Error"

Answers ==
  {[kind |-> "json", impact |-> x] : x \in LLMImpacts}
    \cup {[kind |-> k, impact |-> None] : k \in {"noJson", "badJson", "fail"}}

\* response.json() settles
GenerateBody(r, m, answer) ==
  /\ rpc[r] = "batch"
  /\ mpc[r][m] = "body"
  /\ mpc' = [mpc EXCEPT ![r][m] = "store"]
  /\ result' = [result EXCEPT ![r][m] = analyzeGeneticMarker(answer)]
  /\ markerVarsUnchanged
  /\ UNCHANGED << rpc, analyzedMarkers, genCalls, riskCalls, dbFailed, dbVars,
                  sseVars, parseVars >>

\* storage.createGeneticMarker of line 140 settles.  ok: the row is stored,
\* marker_complete is sent and the promise is fulfilled with the row.
\* ~ok: the catch of line 167 calls createGeneticMarker for the fallback row.
MarkerStored(r, m, ok) ==
  /\ rpc[r] = "batch"
  /\ mpc[r][m] = "store"
  /\ IF ok
       THEN LET sent == sendProgressUpdate(progressConnections, sock, analysisId[r],
                                           Event("marker_complete", m))
                mp == [mpc[r] EXCEPT ![m] = "fulfilled"]
            IN  /\ dbMarkers' =
                     createGeneticMarker(markerRow(r, analysis[r], m, result[r][m]))
                /\ mpc' = [mpc EXCEPT ![r] = mp]
                /\ progressConnections' = sent.conns
                /\ sock' = sent.socks
                /\ logged(r, << Event("marker_complete", m) >>)
                /\ UNCHANGED progressId
                /\ afterMarker(r, mp, result[r])
            /\ UNCHANGED result
       \* result is a const of the try block: the catch block does not see it
       ELSE /\ mpc' = [mpc EXCEPT ![r][m] = "fallback"]
            /\ result' = [result EXCEPT ![r][m] = None]
            /\ UNCHANGED << dbMarkers, sseVars, rpc, analyzedMarkers, riskCalls >>
  /\ failed(r, ok)
  /\ markerVarsUnchanged
  /\ UNCHANGED << genCalls, dbAnalyses, dbRisk, dbChat, posted, parseVars >>

\* storage.createGeneticMarker of line 171 settles.  ok: the fallback row is
\* stored and the promise is fulfilled with it.  ~ok: the promise is rejected.
FallbackStored(r, m, ok) ==
  /\ rpc[r] = "batch"
  /\ mpc[r][m] = "fallback"
  /\ LET mp == [mpc[r] EXCEPT ![m] = IF ok THEN "fulfilled" ELSE "rejected"]
         res == [result[r] EXCEPT ![m] = IF ok THEN "Analysis Pending" ELSE @]
     IN  /\ mpc' = [mpc EXCEPT ![r] = mp]
         /\ result' = [result EXCEPT ![r] = res]
         /\ dbMarkers' = IF ok
              THEN createGeneticMarker(markerRow(r, analysis[r], m, "Analysis Pending"))
              ELSE dbMarkers
         /\ afterMarker(r, mp, res)
  /\ failed(r, ok)
  /\ markerVarsUnchanged
  /\ UNCHANGED << genCalls, dbAnalyses, dbRisk, dbChat, posted, sseVars, parseVars >>

\* setTimeout(resolve, 100) between two batches fires: the next batch starts
DelayReturn(r) ==
  /\ rpc[r] = "delay"
  /\ i' = [i EXCEPT ![r] = @ + batchSize]
  /\ rpc' = [rpc EXCEPT ![r] = "batch"]
  /\ startBatch(r, i[r] + batchSize, analysisId[r])
  /\ UNCHANGED << now, input, analysisId, fileData, analysis, result,
                  analyzedMarkers, risk, responses, genCalls, riskCalls, dbFailed >>
  /\ UNCHANGED << dbVars, parseVars >>

(***************************************************************************)
(* routes.ts lines 205-262: risk assessments, summary, response            *)
(***************************************************************************)
riskVarsUnchanged ==
  UNCHANGED << now, input, analysisId, fileData, analysis, i, mpc, result,
               analyzedMarkers, responses, genCalls, riskCalls >>

\* the fetch of generateResponse, called by generateRiskAssessments, settles.
\* "ok": await response.json().  Otherwise generateRiskAssessments catches
\* the error and returns [], and the handler calls db.update.
RiskFetched(r, how) ==
  /\ rpc[r] = "risk"
  /\ rpc' = [rpc EXCEPT ![r] = IF how = "ok" THEN "riskBody" ELSE "update"]
  /\ riskVarsUnchanged
  /\ UNCHANGED << risk, dbFailed, dbVars, sseVars, parseVars >>

\* the 2 minute timer of that call fires
RiskTimeout(r) ==
  /\ rpc[r] = "risk"
  /\ rpc' = [rpc EXCEPT ![r] = "update"]
  /\ riskVarsUnchanged
  /\ UNCHANGED << risk, dbFailed, dbVars, sseVars, parseVars >>

\* response.json() settles and generateRiskAssessments returns n assessments
\* (none when the call failed); the handler calls createRiskAssessment for the
\* first one, or db.update when there is none
RiskBody(r, n) ==
  /\ rpc[r] = "riskBody"
  /\ risk' = [risk EXCEPT ![r] = [todo |-> n, done |-> 0]]
  /\ rpc' = [rpc EXCEPT ![r] = IF n > 0 THEN "riskStore" ELSE "update"]
  /\ riskVarsUnchanged
  /\ UNCHANGED << dbFailed, dbVars, sseVars, parseVars >>

\* storage.createRiskAssessment settles.  ~ok: the catch of line 219.
RiskStored(r, ok) ==
  /\ rpc[r] = "riskStore"
  /\ IF ok
       THEN /\ dbRisk' = dbRisk (+)
                 SetToBag({createRiskAssessment(r, analysis[r], risk[r].done + 1)})
            /\ risk' = [risk EXCEPT ![r].done = @ + 1]
            /\ rpc' = [rpc EXCEPT ![r] =
                         IF risk[r].done + 1 < risk[r].todo THEN "riskStore" ELSE "update"]
       ELSE /\ rpc' = [rpc EXCEPT ![r] = "update"]
            /\ UNCHANGED << dbRisk, risk >>
  /\ failed(r, ok)
  /\ riskVarsUnchanged
  /\ UNCHANGED << dbAnalyses, dbMarkers, dbChat, posted, sseVars, parseVars >>

\* db.update(geneticAnalyses) settles.  ok: analysis_complete is sent, the
\* connection is cleaned up and the 200 response goes out.  ~ok: the catch of
\* line 257 answers 500.
UpdateReturn(r, ok) ==
  /\ rpc[r] = "update"
  /\ rpc' = [rpc EXCEPT ![r] = "done"]
  /\ LET totalMarkersAnalyzed == Len(analyzedMarkers[r])
         analyzedVariants == Percent(totalMarkersAnalyzed, Len(fileData[r]))
     IN  IF ok
           THEN LET sent == sendProgressUpdate(progressConnections, sock, analysisId[r],
                                               Event("analysis_complete", 0))
                    clean == cleanupProgressConnection(sent.conns, sent.socks,
                                                       analysisId[r])
                IN  /\ dbAnalyses' = [dbAnalyses EXCEPT ![analysis[r]] =
                         [@ EXCEPT !.analyzedVariants = analyzedVariants,
                                   !.status = "completed"]]
                    /\ progressConnections' = clean.conns
                    /\ sock' = clean.socks
                    /\ logged(r, << Event("analysis_complete", 0), Event("cleanup", 0) >>)
                    \* onSuccess: onUploadComplete(data.analysisId, data.progressId)
                    /\ progressId' = [progressId EXCEPT ![r] = analysisId[r]]
                    /\ responses' = [responses EXCEPT ![r] =
                         Append(@, Reply(200, analysis[r], analysisId[r],
                                         totalMarkersAnalyzed, analyzedVariants))]
           ELSE /\ responses' = [responses EXCEPT ![r] =
                                   Append(@, Reply(500, 0, 0, 0, 0))]
                /\ UNCHANGED << dbAnalyses, sseVars >>
  /\ failed(r, ok)
  /\ UNCHANGED << now, input, analysisId, fileData, analysis, i, mpc, result,
                  analyzedMarkers, risk, genCalls, riskCalls >>
  /\ UNCHANGED << dbMarkers, dbRisk, dbChat, posted, parseVars >>

(***************************************************************************)
(* routes.ts POST /api/chat: createChatMessage({message, analysisId,       *)
(* response}) has stored its row.  The handler's earlier awaits read the   *)
(* markers and ask the model; they change nothing that is modelled.        *)
(***************************************************************************)
MaxChat == 1

createChatMessage(aid) == [analysisId |-> aid, message |-> "q"]

PostChat(aid) ==
  /\ BagCardinality(dbChat) < MaxChat
  /\ dbChat' = dbChat (+) SetToBag({createChatMessage(aid)})
  /\ posted' = posted (+) SetToBag({aid})
  /\ UNCHANGED << pipeVars, dbAnalyses, dbMarkers, dbRisk, sseVars, parseVars >>

(***************************************************************************)
(* The server.                                                             *)
(***************************************************************************)
Files == {File(n) : n \in 0 .. maxMarkers + ExtraMarkers}
\* files of at most one batch
SmallFiles == {File(n) : n \in {0, 1, 2}}
TinyFiles == {File(n) : n \in {0, 1}}

InitCommon ==
  /\ now = 0
  /\ rpc = [r \in Runs |-> "idle"]
  /\ analysisId = [r \in Runs |-> 0]
  /\ fileData = [r \in Runs |-> << >>]
  /\ analysis = [r \in Runs |-> 0]
  /\ i = [r \in Runs |-> 0]
  /\ mpc = [r \in Runs |-> [m \in Markers |-> "idle"]]
  /\ result = [r \in Runs |-> [m \in Markers |-> None]]
  /\ analyzedMarkers = [r \in Runs |-> << >>]
  /\ risk = [r \in Runs |-> [todo |-> 0, done |-> 0]]
  /\ responses = [r \in Runs |-> << >>]
  /\ dbAnalyses = << >>
  /\ dbMarkers = EmptyBag
  /\ dbRisk = EmptyBag
  /\ dbChat = EmptyBag
  /\ posted = EmptyBag
  /\ genCalls = [r \in Runs |-> [m \in Markers |-> 0]]
  /\ riskCalls = [r \in Runs |-> 0]
  /\ dbFailed = [r \in Runs |-> FALSE]
  /\ progressConnections = [id \in Ids |-> None]
  /\ sock = [c \in Conns |-> NoSock]
  /\ pfile = NoText
  /\ pout = NotCalled
  /\ gquery = NoTriple
  /\ gout = << >>
  /\ llm = NoCall
  /\ lout = NoReturn

\* a call the handler of run r awaits, other than the delay between two
\* batches, settles, and the handler runs on to its next await
SettleCall(r) ==
  \/ \E ok \in BOOLEAN : CreateAnalysisReturn(r, ok)
  \/ \E m \in Markers :
       \/ \E ok \in BOOLEAN : HealthReturn(r, m, ok)
       \/ \E how \in {"ok", "status", "network"} : GenerateFetched(r, m, how)
       \/ GenerateTimeout(r, m)
       \/ \E answer \in Answers : GenerateBody(r, m, answer)
       \/ \E ok \in BOOLEAN : MarkerStored(r, m, ok)
       \/ \E ok \in BOOLEAN : FallbackStored(r, m, ok)
  \/ \E how \in {"ok", "status", "network"} : RiskFetched(r, how)
  \/ RiskTimeout(r)
  \/ \E n \in 0 .. MaxAssessments : RiskBody(r, n)
  \/ \E ok \in BOOLEAN : RiskStored(r, ok)
  \/ \E ok \in BOOLEAN : UpdateReturn(r, ok)

Settle(r) == SettleCall(r) \/ DelayReturn(r)

Upload(r) == UploadStart(r) \/ Settle(r)

\* the handler of a file of one batch: line 200 is not reached
UploadOneBatch(r) == UploadStart(r) \/ SettleCall(r)

\* Spec: one upload request, of any file, and nobody else
Init ==
  /\ InitCommon
  /\ emitted = NotObserved
  /\ progressId = [r \in Runs |-> NoId]
  /\ input \in {f \in [Runs -> {NoRequest, NoFile} \cup Files] :
                  f[1] # NoRequest /\ f[2] = NoRequest}

Next == \E r \in Runs : Upload(r)

Spec == Init /\ [][Next]_vars

\* every call a handler awaits returns or fails; when a request arrives is up
\* to the client
\* FairSpec: one upload request, of a file of at most two batches
InitFair ==
  /\ InitCommon
  /\ emitted = NotObserved
  /\ progressId = [r \in Runs |-> NoId]
  /\ input \in {f \in [Runs -> {NoRequest, NoFile} \cup {File(n) : n \in 0 .. batchSize + 1}] :
                  f[1] # NoRequest /\ f[2] = NoRequest}

FairSpec == InitFair /\ [][Next]_vars /\ \A r \in Runs : WF_vars(Settle(r))

\* SpecSSE: one upload request of a small file, and the progress clients
InitSSE ==
  /\ InitCommon
  /\ emitted = NotObserved
  /\ progressId = [r \in Runs |-> NoId]
  /\ input \in {f \in [Runs -> {NoRequest, NoFile} \cup SmallFiles] :
                  f[1] # NoRequest /\ f[2] = NoRequest}

NextSSE ==
  \/ \E r \in Runs : UploadOneBatch(r)
  \/ \E c \in Conns, id \in Ids : Connect(c, id)
  \/ \E c \in Conns : Close(c)

SpecSSE == InitSSE /\ [][NextSSE]_vars

\* SpecTwo: two upload requests of files of at most one row, and chat
InitTwo ==
  /\ InitCommon
  /\ emitted = NotObserved
  /\ progressId = [r \in Runs |-> NoId]
  /\ input \in [Runs -> {NoFile} \cup TinyFiles]

NextTwo ==
  \/ \E r \in Runs : UploadOneBatch(r)
  \/ \E aid \in Runs : PostChat(aid)

SpecTwo == InitTwo /\ [][NextTwo]_vars

\* SpecClock: two upload requests of one-row files that may arrive in the
\* same millisecond or not, and a client that subscribes
InitClock ==
  /\ InitCommon
  /\ emitted = NotObserved
  /\ progressId = [r \in Runs |-> NoId]
  /\ input = [r \in Runs |-> File(1)]

NextClock ==
  \/ \E r \in Runs : UploadOneBatch(r)
  \/ \E id \in Ids : Connect("c1", id)
  \/ Tick

SpecClock == InitClock /\ [][NextClock]_vars

\* SpecOrder: one upload request of a file of at most two batches, with the
\* calls into progress-sse.ts recorded
InitOrder ==
  /\ InitCommon
  /\ emitted = Observed
  /\ progressId = [r \in Runs |-> NoId]
  /\ input \in {f \in [Runs -> {NoRequest, NoFile} \cup {File(n) : n \in 0 .. batchSize + 1}] :
                  f[1] # NoRequest /\ f[2] = NoRequest}

SpecOrder == InitOrder /\ [][Next]_vars

\* SpecParse: parseGeneticFile alone, on files written line by line
WriteHeader(h) ==
  /\ pfile = NoText
  /\ pfile' = [header |-> h, rows |-> << >>, buffer |-> HeaderLine(h)]
  /\ pout' = NotCalled
  /\ UNCHANGED << pipeVars, dbVars, sseVars, gquery, gout, llm, lout >>

WriteRow(w, e) ==
  /\ pfile.header # << >>
  /\ Len(pfile.rows) < MaxRows
  /\ pfile' = [pfile EXCEPT
                 !.rows = Append(@, [width |-> w, empty |-> e]),
                 !.buffer = @ \o << "\n" >> \o RowLine(Len(pfile.rows) + 1, w, e)]
  /\ pout' = NotCalled
  /\ UNCHANGED << pipeVars, dbVars, sseVars, gquery, gout, llm, lout >>

ParseFile ==
  /\ pout = NotCalled
  /\ pout' = parseGeneticFile(pfile.buffer)
  /\ UNCHANGED << pfile, pipeVars, dbVars, sseVars, gquery, gout, llm, lout >>

InitParse ==
  /\ InitCommon
  /\ emitted = NotObserved
  /\ progressId = [r \in Runs |-> NoId]
  /\ input = [r \in Runs |-> NoRequest]

NextParse ==
  \/ \E h \in Headers : WriteHeader(h)
  \/ \E w \in 1 .. MaxFields : \E e \in 0 .. w : WriteRow(w, e)
  \/ ParseFile

SpecParse == InitParse /\ [][NextParse]_vars

\* SpecRisk: analyzeGeneticRisk alone, called on one triple
AskRisk(gene, variant, genotype) ==
  /\ gquery = NoTriple
  /\ gquery' = << gene, variant, genotype >>
  /\ UNCHANGED << gout, pfile, pout, pipeVars, dbVars, sseVars, llm, lout >>

AnalyzeRisk ==
  /\ gquery # NoTriple
  /\ Len(gout) < MaxCalls
  /\ gout' = Append(gout, analyzeGeneticRisk(gquery[1], gquery[2], gquery[3]))
  /\ UNCHANGED << gquery, pfile, pout, pipeVars, dbVars, sseVars, llm, lout >>

NextRisk ==
  \/ \E gene \in Genes, variant \in Variants, genotype \in Genotypes :
       AskRisk(gene, variant, genotype)
  \/ AnalyzeRisk

SpecRisk == InitParse /\ [][NextRisk]_vars

\* SpecMarker: analyzeGeneticMarker alone, against an LLM server whose
\* answer is written piece by piece
AskMarker(marker, health, generate) ==
  /\ llm.asked = "no"
  /\ llm' = [NoCall EXCEPT !.asked = "marker", !.marker = marker,
                           !.health = health, !.generate = generate]
  /\ UNCHANGED << lout, pfile, pout, gquery, gout, pipeVars, dbVars, sseVars >>

\* the server answers 2xx with a body that holds a response text
WriteAnswer(chunk) ==
  /\ llm.asked # "no"
  /\ llm.health = "ok" /\ llm.generate = "ok"
  /\ lout.calls = << >>
  /\ llm.written < MaxAnswer
  /\ llm' = [llm EXCEPT !.written = @ + 1, !.response = @ \o chunk]
  /\ UNCHANGED << lout, pfile, pout, gquery, gout, pipeVars, dbVars, sseVars >>

AnalyzeMarker ==
  /\ llm.asked = "marker"
  /\ lout.calls = << >>
  /\ lout' = analyzeGeneticMarkerFull(llm.marker, llm)
  /\ UNCHANGED << llm, pfile, pout, gquery, gout, pipeVars, dbVars, sseVars >>

NextMarker ==
  \/ \E marker \in TestMarkers : \E health \in {"ok", "status", "network"} :
       \E generate \in {"ok", "status", "network", "timeout", "body", "noText"} :
         AskMarker(marker, health, generate)
  \/ \E chunk \in MarkerChunks : WriteAnswer(chunk)
  \/ AnalyzeMarker

SpecMarker == InitParse /\ [][NextMarker]_vars


\* SpecAssess: generateRiskAssessments alone, against an LLM server whose
\* answer is written piece by piece
AskAssessments(generate) ==
  /\ llm.asked = "no"
  /\ llm' = [NoCall EXCEPT !.asked = "assessments", !.generate = generate]
  /\ UNCHANGED << lout, pfile, pout, gquery, gout, pipeVars, dbVars, sseVars >>

AssessRisk ==
  /\ llm.asked = "assessments"
  /\ lout.calls = << >>
  /\ lout' = generateRiskAssessmentsFull(llm)
  /\ UNCHANGED << llm, pfile, pout, gquery, gout, pipeVars, dbVars, sseVars >>

NextAssess ==
  \/ \E generate \in {"ok", "status", "network", "timeout", "body", "noText"} :
       AskAssessments(generate)
  \/ \E chunk \in AssessChunks : WriteAnswer(chunk)
  \/ AssessRisk

SpecAssess == InitParse /\ [][NextAssess]_vars


(***************************************************************************)
(* Properties.                                                             *)
(***************************************************************************)
Settled == {"fulfilled", "rejected"}
InFlight(r) == {m \in Markers : mpc[r][m] \notin Settled \cup {"idle"}}
Started(r) == {m \in Markers : mpc[r][m] # "idle"}
\* the batch a position belongs to, counted from 0
batchOf(m) == (m - 1) \div batchSize
\* the number of genetic_markers rows that run r stored for position m
stored(r, m) ==
  BagCardinality([x \in {y \in BagToSet(dbMarkers) : y.run = r /\ y.idx = m}
                    |-> dbMarkers[x]])
LastReply(r) == responses[r][Len(responses[r])]
Succeeded(r) == rpc[r] = "done" /\ responses[r] # << >> /\ LastReply(r).status = 200
\* the markers the run is to analyse, from the file as it was built
Analysed(r) == 1 .. Min(input[r].rows, maxMarkers)

\* C1: during a run at most batchSize marker analyses are in flight, and a
\* marker of a later batch is started only when every marker of every
\* earlier batch has settled (fulfilled or rejected).
C1_BoundedBatches ==
  \A r \in Runs :
    /\ Cardinality(InFlight(r)) <= batchSize
    /\ \A m \in Started(r) : \A k \in Markers :
         batchOf(k) < batchOf(m) => mpc[r][k] \in Settled

C1_Witness ==
  \E r \in Runs : \E m \in InFlight(r) :
    /\ batchOf(m) > 0
    /\ \E k \in Markers : batchOf(k) < batchOf(m) /\ mpc[r][k] = "rejected"

\* C2: whatever marker analyses fail (model unreachable, call aborted, answer
\* not parsable), no marker is ever stored twice, and a run whose storage
\* calls all succeed ends with the 200 response and exactly one stored row
\* for each analysed marker.
C2_OneRecordPerMarker ==
  \A r \in Runs :
    /\ \A m \in Markers : stored(r, m) <= 1
    /\ (rpc[r] = "done" /\ input[r].kind = "file" /\ input[r].rows > 0 /\ ~dbFailed[r])
         => /\ Succeeded(r)
            /\ \A m \in Markers : stored(r, m) = (IF m \in Analysed(r) THEN 1 ELSE 0)

C2_Witness ==
  \E r \in Runs :
    /\ Succeeded(r) /\ ~dbFailed[r]
    /\ \E m, k \in Analysed(r) :
         /\ result[r][m] = "Analysis Error" /\ stored(r, m) = 1
         /\ result[r][k] = "Pending Local Analysis" /\ genCalls[r][k] = 0

\* C4: of a file with N valid markers exactly the first min(N, maxMarkers)
\* are analysed, never more than maxMarkers rows are stored for the analysis,
\* and the analysis row's totalMarkers is N.
C4_FirstMarkersOnly ==
  \A r \in Runs :
    /\ Started(r) \subseteq Analysed(r)
    /\ rpc[r] \in {"risk", "riskBody", "riskStore", "update"} \/ Succeeded(r)
         => Started(r) = Analysed(r)
    /\ analysis[r] # 0 =>
         /\ BagCardinality(getGeneticMarkersByAnalysisId(analysis[r])) <= maxMarkers
         /\ dbAnalyses[analysis[r]].totalMarkers = input[r].rows

C4_Witness ==
  \E r \in Runs :
    /\ Succeeded(r)
    /\ input[r].rows > maxMarkers
    /\ BagCardinality(getGeneticMarkersByAnalysisId(analysis[r])) = maxMarkers
    /\ dbAnalyses[analysis[r]].totalMarkers = input[r].rows

\* C7: in one run /api/generate is called at most once for each analysed
\* marker, never for another marker, and at most once for the risk
\* assessments; a call that failed or timed out is not issued again.
C7_NoRetry ==
  \A r \in Runs :
    /\ riskCalls[r] <= 1
    /\ \A m \in Markers : genCalls[r][m] <= (IF m \in Analysed(r) THEN 1 ELSE 0)

C7_Witness ==
  \E r \in Runs :
    /\ rpc[r] = "done" /\ riskCalls[r] = 1
    /\ \E m \in Markers : genCalls[r][m] = 1 /\ result[r][m] = "Analysis Error"

Fulfilled(r) == {m \in Markers : mpc[r][m] = "fulfilled"}
\* the markers whose analysis and first insert succeeded (marker_complete is sent)
Completed(r) == {m \in Fulfilled(r) : result[r][m] # "Analysis Pending"}
Written(c) == {sock[c].written[k] : k \in 1 .. Len(sock[c].written)}
\* connection c was registered under the progress id of run r from before the
\* run started until the run cleaned it up
Watched(r, c) ==
  /\ sock[c].early
  /\ sock[c].state = "ended"
  /\ sock[c].id = analysisId[r]

\* C3: a client whose connection is registered under a run's progress id
\* while the run executes is written marker_progress and marker_complete for
\* every successfully analysed marker, and analysis_complete at the end.
C3_ClientSeesProgress ==
  \A r \in Runs : \A c \in Conns :
    Succeeded(r) /\ Watched(r, c) =>
      /\ \A m \in Completed(r) :
           /\ Event("marker_progress", m) \in Written(c)
           /\ Event("marker_complete", m) \in Written(c)
      /\ Event("analysis_complete", 0) \in Written(c)

ProgressData ==
  {Event(t, 0) : t \in {"analysis_started", "analysis_complete"}}
    \cup {Event(t, m) : t \in {"marker_progress", "marker_complete"}, m \in Markers}

\* the rows run r must have stored, given only what the storage calls and the
\* model answered
ExpectedMarkers(r) ==
  SetToBag({markerRow(r, analysis[r], m, result[r][m]) : m \in Fulfilled(r)})
RowsOfRun(table, r) ==
  [row \in {x \in BagToSet(table) : x.run = r} |-> table[row]]

\* C5: sendProgressUpdate for an id without a registered connection changes
\* neither the registry nor a socket and does not throw; and what a run
\* stores and answers is fixed by the file and by the answers of the model
\* and of the storage alone, whether or not a client is subscribed.
C5_FireAndForget ==
  /\ \A id \in Ids : \A data \in ProgressData :
       LET sent == sendProgressUpdate(progressConnections, sock, id, data)
       IN  /\ ~sent.threw
           /\ progressConnections[id] = None =>
                sent.conns = progressConnections /\ sent.socks = sock
  /\ \A r \in Runs :
       /\ RowsOfRun(dbMarkers, r) = ExpectedMarkers(r)
       /\ RowsOfRun(dbRisk, r) =
            SetToBag({createRiskAssessment(r, analysis[r], k) : k \in 1 .. risk[r].done})
       /\ (rpc[r] = "done" /\ input[r].kind = "file" /\ input[r].rows > 0 /\ ~dbFailed[r])
            => responses[r] =
                 << Reply(200, analysis[r], analysisId[r], Cardinality(Fulfilled(r)),
                          Percent(Cardinality(Fulfilled(r)), input[r].rows)) >>

C5_Witness ==
  \E r \in Runs : \E c \in Conns :
    /\ Succeeded(r) /\ Watched(r, c)
    /\ Fulfilled(r) # {}
    /\ \E id \in Ids : progressConnections[id] = None

\* C6: a marker analysis never waits for the model server without the abort
\* timer of the call running, so a server that never answers cannot block it.
C6_TimeoutOnEveryWait ==
  \A r \in Runs : \A m \in Markers :
    mpc[r][m] \in {"health", "llm"} => ENABLED GenerateTimeout(r, m)

C9_PerAnalysis ==
  /\ \A r1, r2 \in Runs : r1 # r2 /\ analysis[r1] # 0 => analysis[r1] # analysis[r2]
  /\ \A row \in BagToSet(dbMarkers) \cup BagToSet(dbRisk) :
       row.analysisId # 0 /\ row.analysisId = analysis[row.run]
  /\ \A r \in Runs : analysis[r] # 0 =>
       /\ getGeneticMarkersByAnalysisId(analysis[r]) = ExpectedMarkers(r)
       /\ BagCardinality(getRiskAssessmentsByAnalysisId(analysis[r])) = risk[r].done
  /\ \A aid \in Runs :
       BagCardinality(getChatMessagesByAnalysisId(aid)) = CopiesIn(aid, posted)

C9_Witness ==
  /\ analysis[1] = 2 /\ analysis[2] = 1
  /\ mpc[1][1] = "fulfilled" /\ mpc[2][1] \in {"health", "llm", "body", "store"}
  /\ BagCardinality(getGeneticMarkersByAnalysisId(2)) = 1
  /\ BagCardinality(getChatMessagesByAnalysisId(2)) = 1

Wanted == {"gene", "variant", "genotype"}
ColumnOf(h, name) == CHOOSE c \in 1 .. Len(h) : h[c] = name
\* row k of file f is a data row that yields a marker
Yields(f, k) ==
  /\ f.rows[k].width >= Len(f.header)
  /\ \A name \in Wanted :
       \E c \in 1 .. Len(f.header) : f.header[c] = name /\ f.rows[k].empty # c
Kept(f) == {k \in 1 .. Len(f.rows) : Yields(f, k)}
\* the j-th smallest element of the set S of numbers
Nth(S, j) == CHOOSE k \in S : Cardinality({x \in S : x < k}) = j - 1
MarkerOf(f, k) ==
  [gene |-> Word(k, ColumnOf(f.header, "gene")),
   variant |-> Word(k, ColumnOf(f.header, "variant")),
   genotype |-> Word(k, ColumnOf(f.header, "genotype"))]
\* the lines of f that are not blank: the header and every row but " \r"
NonBlankLines(f) ==
  (IF f.header = << >> THEN 0 ELSE 1)
    + Cardinality({k \in 1 .. Len(f.rows) : ~(f.rows[k].width = 1 /\ f.rows[k].empty = 1)})

\* C10: parseGeneticFile returns, in file order, one marker for each data
\* row with at least as many fields as the header and non-empty values in
\* the columns gene, variant and genotype, skips every other row, and throws
\* when the file has fewer than two non-blank lines or no row yields a
\* marker.
C10_ParseRows ==
  pout # NotCalled =>
    /\ pout.ok <=> (NonBlankLines(pfile) >= 2 /\ Kept(pfile) # {})
    /\ pout.ok =>
         /\ Len(pout.markers) = Cardinality(Kept(pfile))
         /\ \A j \in 1 .. Len(pout.markers) :
              pout.markers[j] = MarkerOf(pfile, Nth(Kept(pfile), j))
    /\ ~pout.ok =>
         /\ pout.markers = << >>
         /\ pout.error =
              IF NonBlankLines(pfile) < 2
                THEN "File must contain at least a header and one data row"
                ELSE "No valid genetic markers found in file"

C10_Witness ==
  /\ pout.ok
  /\ Len(pfile.header) = 4
  /\ Len(pfile.rows) = 2
  /\ pfile.rows[1].empty = ColumnOf(pfile.header, "gene")
  /\ pfile.rows[1].width = 4
  /\ pout.markers = << MarkerOf(pfile, 2) >>

\* C11: every stored risk assessment belongs to an analysis that has at
\* least one stored marker, and a run in which no marker was analysed
\* stores no risk assessment.
C11_RiskFromMarkers ==
  /\ \A row \in BagToSet(dbRisk) :
       BagCardinality(getGeneticMarkersByAnalysisId(row.analysisId)) >= 1
  /\ \A r \in Runs :
       Fulfilled(r) = {} => BagToSet(RowsOfRun(dbRisk, r)) = {}

\* a run that lost a marker to the storage stored two risk assessments
C11_Witness ==
  \E r \in Runs :
    /\ rpc[r] = "done"
    /\ \E m \in Markers : mpc[r][m] = "rejected"
    /\ Fulfilled(r) # {}
    /\ BagCardinality(RowsOfRun(dbRisk, r)) = 2

\* the triple is present in the hardcoded table
InTable(gene, variant, genotype) ==
  /\ gene \in DOMAIN riskVariants
  /\ variant \in DOMAIN riskVariants[gene]
  /\ genotype \in DOMAIN riskVariants[gene][variant]
UnknownVariant ==
  [impact |-> Prim("Unknown"), riskScore |-> Prim(5),
   clinicalSignificance |-> Prim("Variant of uncertain significance"),
   category |-> Prim("Other"), subcategory |-> Prim("Unknown")]
EntryOf(gene, variant, genotype) ==
  LET e == riskVariants[gene][variant][genotype]
  IN  [impact |-> Prim(e.impact), riskScore |-> Prim(e.score),
       clinicalSignificance |-> Prim(e.significance),
       category |-> Prim(e.category), subcategory |-> Prim(e.subcategory)]

\* C12: analyzeGeneticRisk returns the entry of a triple that is in the
\* table and the 'Unknown' / 0.5 / 'Variant of uncertain significance' /
\* 'Other' / 'Unknown' result for every other triple, and every call on the
\* same triple returns the same.
C12_PureLookup ==
  \A k \in 1 .. Len(gout) :
    /\ gout[k] = gout[1]
    /\ gout[k] = IF InTable(gquery[1], gquery[2], gquery[3])
                   THEN EntryOf(gquery[1], gquery[2], gquery[3])
                   ELSE UnknownVariant

Log(r) == emitted[r].log
MarkerEvent(e) == e.type \in {"marker_progress", "marker_complete"}
Count(r, e) == Cardinality({k \in 1 .. Len(Log(r)) : Log(r)[k] = e})

\* C13: the calls a run makes into progress-sse.ts come in this order:
\* analysis_started once and first; marker_progress of a marker before its
\* marker_complete; every marker event of a batch before any marker event
\* of a later batch; analysis_complete once and after every marker event;
\* nothing after cleanupProgressConnection.  A run that succeeded has made
\* all of them.
C13_EventOrder ==
  \A r \in Runs :
    /\ Log(r) # << >> => Log(r)[1] = Event("analysis_started", 0)
    /\ Count(r, Event("analysis_started", 0)) <= 1
    /\ Count(r, Event("analysis_complete", 0)) <= 1
    /\ \A k \in 1 .. Len(Log(r)) :
         /\ Log(r)[k].type = "marker_complete" =>
              \E j \in 1 .. k - 1 : Log(r)[j] = Event("marker_progress", Log(r)[k].current)
         /\ MarkerEvent(Log(r)[k]) =>
              \A j \in 1 .. Len(Log(r)) :
                /\ MarkerEvent(Log(r)[j])
                /\ batchOf(Log(r)[j].current) < batchOf(Log(r)[k].current)
                => j < k
         /\ Log(r)[k].type = "analysis_complete" =>
              \A j \in 1 .. Len(Log(r)) : MarkerEvent(Log(r)[j]) => j < k
         /\ Log(r)[k].type = "cleanup" => k = Len(Log(r))
    /\ Succeeded(r) =>
         /\ Count(r, Event("analysis_started", 0)) = 1
         /\ Count(r, Event("analysis_complete", 0)) = 1
         /\ Count(r, Event("cleanup", 0)) = 1
         /\ \A m \in Analysed(r) : Count(r, Event("marker_progress", m)) = 1
         /\ \A m \in Completed(r) : Count(r, Event("marker_complete", m)) = 1

\* a run of two batches succeeded; in its first batch the second marker was
\* completed before the first
C13_Witness ==
  \E r \in Runs :
    /\ Succeeded(r)
    /\ Completed(r) = 1 .. batchSize + 1
    /\ \E j, k \in 1 .. Len(Log(r)) :
         /\ j < k
         /\ Log(r)[j] = Event("marker_complete", 2)
         /\ Log(r)[k] = Event("marker_complete", 1)

Rejected(r) == {m \in Markers : mpc[r][m] = "rejected"}
\* the handler of run r is past its batch loop
PastLoop(r) == analysis[r] # 0 /\ rpc[r] \in {"risk", "riskBody", "riskStore", "update", "done"}

\* C14: a marker whose promise is rejected stops neither its batch nor the
\* run: once the loop is over every marker to analyse has settled, the
\* rejected ones have no record and are not in analyzedMarkers, and the
\* count in the summary is the number of marker records stored.
C14_RejectedLeftOut ==
  \A r \in Runs :
    /\ \A m \in Rejected(r) :
         /\ stored(r, m) = 0
         /\ \A k \in 1 .. Len(analyzedMarkers[r]) : analyzedMarkers[r][k].idx # m
    /\ PastLoop(r) =>
         /\ Fulfilled(r) \cup Rejected(r) = Analysed(r)
         /\ Len(analyzedMarkers[r]) = Cardinality(Fulfilled(r))
         /\ Len(analyzedMarkers[r]) =
              BagCardinality(getGeneticMarkersByAnalysisId(analysis[r]))
    /\ Succeeded(r) =>
         LastReply(r).totalMarkers =
           BagCardinality(getGeneticMarkersByAnalysisId(analysis[r]))

\* a run succeeded although a marker of its first batch was rejected; the
\* other marker of that batch and the marker of the second batch are stored
C14_Witness ==
  \E r \in Runs :
    /\ Succeeded(r)
    /\ Rejected(r) = {1}
    /\ Fulfilled(r) = 2 .. batchSize + 1
    /\ LastReply(r).totalMarkers = batchSize

\* C15: the registry entry of a progress id is removed only in a step in
\* which the connection registered under that id closes or is ended by the
\* cleanup; a live connection stays registered when another one closes.
C15_RemovedOnlyByOwner ==
  [][\A id \in Ids :
       (progressConnections[id] # None /\ progressConnections'[id] = None) =>
         /\ sock[progressConnections[id]].state = "open"
         /\ sock'[progressConnections[id]].state \in {"closed", "ended"}]_vars

\* C16: a reader never gets an analysis with status 'completed' while the
\* upload that created it is still analysing markers.
C16_CompletedAfterMarkers ==
  \A row \in getAllGeneticAnalyses :
    row.status = "completed" => PastLoop(row.run)

\* the step in which run r answers 200
Answers200(r) == rpc[r] # "done" /\ rpc'[r] = "done" /\ responses'[r][1].status = 200

\* C17: the step in which a run answers 200 ends the connection registered
\* under its progress id and removes the entry; the step in which a client
\* disconnects removes the entry of its id; no ended or closed connection
\* is registered, and sendProgressUpdate writes nothing to one.
C17_EndedAndRemoved ==
  /\ [](/\ \A id \in Ids :
             progressConnections[id] # None =>
               sock[progressConnections[id]].state = "open"
        /\ \A id \in Ids : \A data \in ProgressData : \A c \in Conns :
             sock[c].state \in {"ended", "closed"} =>
               sendProgressUpdate(progressConnections, sock, id, data).socks[c] = sock[c])
  /\ [][/\ \A r \in Runs :
             Answers200(r) =>
               /\ progressConnections'[analysisId[r]] = None
               /\ progressConnections[analysisId[r]] # None =>
                    sock'[progressConnections[analysisId[r]]].state = "ended"
        /\ \A c \in Conns :
             (sock[c].state = "open" /\ sock'[c].state = "closed") =>
               progressConnections'[sock[c].id] = None]_vars

\* a run answered 200 and ended the connection a client held under its id,
\* and another client has disconnected
C17_Witness ==
  \E r \in Runs : \E c, c2 \in Conns :
    /\ Succeeded(r) /\ Watched(r, c)
    /\ progressConnections[analysisId[r]] = None
    /\ c2 # c /\ sock[c2].state = "closed"

\* C18: the step in which a run that had started (analysis_started sent) is
\* answered, with 200 or with 500, leaves no connection registered under
\* the run's progress id.
C18_AnsweredMeansRemoved ==
  [][\A r \in Runs :
       (rpc[r] \notin {"idle", "done"} /\ rpc'[r] = "done") =>
         progressConnections'[analysisId[r]] = None]_vars

\* C19: while a run is analysing markers, the dashboard that sent the
\* request holds the run's progress id, so that it can subscribe to it.
C19_IdKnownWhileRunning ==
  \A r \in Runs :
    (Started(r) # {} /\ rpc[r] # "done") => progressId[r] = analysisId[r]

\* run r is executing: it has a progress id and has not answered yet
Executing(r) == rpc[r] \notin {"idle", "done"}

\* C20: two runs that execute at the same time have different progress ids,
\* so a step in which one run answers and ends a client's stream (its
\* cleanupProgressConnection) never ends the stream registered under the id
\* of another run that is still executing.
C20_CleanupEndsOwnStream ==
  [][\A r \in Runs : \A c \in Conns :
       ( /\ Executing(r) /\ rpc'[r] = "done"
         /\ sock[c].state = "open" /\ sock'[c].state = "ended" )
       => \A q \in Runs \ {r} :
            ~(Executing(q) /\ analysisId[q] = sock[c].id)]_vars

\* the text holds a "{" with a "}" somewhere after it
HoldsObject(text) ==
  \E a \in 1 .. Len(text) : \E b \in a + 1 .. Len(text) : text[a] = "{" /\ text[b] = "}"
\* what JSON.parse is given: from the first "{" to the last "}", cleaned
ObjectText(text) ==
  LET a == CHOOSE k \in 1 .. Len(text) :
             text[k] = "{" /\ \A j \in 1 .. k - 1 : text[j] # "{"
      b == CHOOSE k \in 1 .. Len(text) :
             text[k] = "}" /\ \A j \in k + 1 .. Len(text) : text[j] # "}"
  IN  CleanObject(SubSeq(text, a, b))
GenerateFails(server) == server.generate \in {"status", "network", "timeout", "body"}

\* C21: a call of analyzeGeneticMarker never throws; the gene, variant and
\* genotype of its result are those of the marker it was given, whatever the
\* answer of the LLM says; POST /api/generate is sent only after GET /api/tags
\* was answered with a 2xx status; when the health check is false, or the
\* answer holds no {...}, the result is 'Pending Local Analysis' with
\* riskScore 0; when the LLM call fails or JSON.parse throws on the {...} of
\* the answer, the result is 'Analysis Error' with riskScore 0.
C21_MarkerResult ==
  (llm.asked = "marker" /\ lout.calls # << >>) =>
    /\ ~lout.threw
    /\ lout.value.gene = llm.marker.gene
    /\ lout.value.variant = llm.marker.variant
    /\ lout.value.genotype = llm.marker.genotype
    /\ \A k \in 1 .. Len(lout.calls) :
         lout.calls[k] = "/api/generate" =>
           llm.health = "ok" /\ k > 1 /\ lout.calls[k - 1] = "/api/tags"
    /\ ( \/ llm.health # "ok"
         \/ llm.generate = "ok" /\ ~HoldsObject(llm.response) )
       => /\ lout.value.impact = JsString("Pending Local Analysis")
          /\ lout.value.riskScore = JsonNumber(0)
    /\ ( /\ llm.health = "ok"
         /\ \/ GenerateFails(llm)
            \/ /\ llm.generate = "ok"
               /\ HoldsObject(llm.response)
               /\ ~JSONparse(ObjectText(llm.response)).ok )
       => /\ lout.value.impact = JsString("Analysis Error")
          /\ lout.value.riskScore = JsonNumber(0)

\* the LLM answered about MTHFR rs9 TT, after some prose, to a call for
\* BRCA1 rs1 AG, and the call returned BRCA1 rs1 AG with the impact of the
\* answer
C21_Witness ==
  /\ llm.asked = "marker"
  /\ llm.marker = JsMarker("BRCA1", "rs1", "AG")
  /\ llm.response = << "Here", " " >> \o FullAnswer \o << "\n" >>
  /\ lout.calls = << "/api/tags", "/api/generate" >>
  /\ lout.value.gene = JsString("BRCA1")
  /\ lout.value.impact = JsString("High")
  /\ lout.value.riskScore = JsonNumber(50)

\* the text holds a "[" with a "]" somewhere after it
HoldsArray(text) ==
  \E a \in 1 .. Len(text) : \E b \in a + 1 .. Len(text) : text[a] = "[" /\ text[b] = "]"
\* what the repair is given: from the first "[" to the first "]" after it
ArrayText(text) ==
  LET a == CHOOSE k \in 1 .. Len(text) :
             text[k] = "[" /\ \A j \in 1 .. k - 1 : text[j] # "["
      b == CHOOSE k \in a + 1 .. Len(text) :
             text[k] = "]" /\ \A j \in a + 1 .. k - 1 : text[j] # "]"
  IN  SubSeq(text, a, b)
\* the positions where a "category": "..." field of the text starts
CategoryFields(text) ==
  {p \in 1 .. Len(text) - 6 :
     /\ text[p] = Quote /\ text[p + 1] = "category" /\ text[p + 2] = Quote
     /\ text[p + 3] = ":"
     /\ \E q \in p + 4 .. Len(text) - 2 :
          /\ \A j \in p + 4 .. q - 1 : text[j] \in Space
          /\ text[q] = Quote /\ text[q + 1] # Quote
          /\ \E k \in q + 2 .. Len(text) : text[k] = Quote}
IsPlaceholder(value) ==
  /\ Len(value) = 1
  /\ value[1].category = JsString("General Health")
  /\ value[1].riskLevel = JsonNumber(25)
\* an assessment made by the regex fallback
FromFallback(v) ==
  "subcategory" \in DOMAIN v /\ v.subcategory = JsString("Risk Assessment")

\* C22: a call of generateRiskAssessments never throws.  It returns [] when
\* the LLM call fails; one 'General Health' assessment with riskLevel 2.5 when
\* the answer holds no [...], or when the repaired [...] does not parse and
\* fewer than 2 "category" fields are in the answer; the array JSON.parse
\* gives when the repaired [...] parses; and otherwise the assessments of the
\* regex fallback, one for each of the first 4 "category" fields.  Assessments
\* of the fallback are returned only when at least 2 "category" fields were
\* found, and never more than 4.
C22_RiskAssessments ==
  (llm.asked = "assessments" /\ lout.calls # << >>) =>
    LET text == llm.response
        repaired == JSONparse(RepairArray(ArrayText(text)))
        found == Cardinality(CategoryFields(text))
    IN  /\ ~lout.threw
        /\ GenerateFails(llm) => lout.value = << >>
        /\ (llm.generate = "ok" /\ ~HoldsArray(text)) => IsPlaceholder(lout.value)
        /\ (llm.generate = "ok" /\ HoldsArray(text)) =>
             IF repaired.ok
               THEN /\ repaired.value.kind = "array"
                    /\ lout.value = repaired.value.items
               ELSE IF found >= 2
                 THEN /\ Len(lout.value) = Min(4, found)
                      /\ \A k \in 1 .. Len(lout.value) : FromFallback(lout.value[k])
                 ELSE IsPlaceholder(lout.value)
        /\ (\E k \in 1 .. Len(lout.value) : FromFallback(lout.value[k])) =>
             /\ found >= 2
             /\ Len(lout.value) <= 4

\* the answer holds an array of five assessments with commas missing: the
\* repaired text does not parse, five "category" fields are found and the
\* fallback returns four assessments, the first of them Heart with 3
C22_Witness ==
  /\ llm.asked = "assessments"
  /\ llm.response = << "[" >> \o GoodAssessment \o << " " >> \o PairOfAssessments
                      \o << " " >> \o PairOfAssessments \o << "]" >>
  /\ Cardinality(CategoryFields(llm.response)) = 5
  /\ lout.calls = << "/api/generate" >>
  /\ Len(lout.value) = 4
  /\ lout.value[1].category = JsString("Heart")
  /\ lout.value[1].riskLevel = JsonNumber(30)
  /\ lout.value[4].riskLevel = JsonNumber(25)

=============================================================================
